---- MODULE Spec2Model ----
(***************************************************************************)
(* A model of the escape-sequence interpreter of the ov pager              *)
(* (oviewer/convert_es.go).  Strings are sequences of code points, so that *)
(* splitting, digit tests and number parsing are computed as the code      *)
(* computes them.                                                          *)
(***************************************************************************)
EXTENDS Integers, Sequences, FiniteSets, TLC

\* ------------------------------------------------------------------ runes
ESC == 27
BEL == 7
LF == 10
SEMI == 59
COLON == 58
BSL == 92
LBRACKET == 91
RBRACKET == 93
LPAREN == 40

\* Single-letter runes, written as code points.
Rc == 99
RP == 80
RX == 88
RCaret == 94
RUnder == 95
R8 == 56
Rm == 109
RK == 75
RA == 65
RT == 84
Ru == 117
R0 == 48
R4 == 52

\* ------------------------------------------------------------- constants
ansiText == "ansiText"
ansiEscape == "ansiEscape"
ansiSubstring == "ansiSubstring"
ansiControlSequence == "ansiControlSequence"
otherSequence == "otherSequence"
systemSequence == "systemSequence"
oscHyperLink == "oscHyperLink"
oscParameter == "oscParameter"
oscURL == "oscURL"

csiParamStart == 32
csiParamEnd == 63

Colors256 == 5
ColorsRGB == 2

\* ---------------------------------------------------------------- colors
\* A color name is a record: kind "" is the empty string (inherit),
\* "default" the terminal default, "palette" tcell.PaletteColor(n).String(),
\* "rgb" the string "#rrggbb" of three values in 0..255.
NoColor == [kind |-> "", v |-> <<>>]
DefaultColor == [kind |-> "default", v |-> <<>>]
PaletteColor(n) == [kind |-> "palette", v |-> <<n>>]
RGBColor(r, g, b) == [kind |-> "rgb", v |-> <<r, g, b>>]

\* ------------------------------------------------------------ tcell.Style
StyleDefault == [fg |-> DefaultColor, bg |-> DefaultColor, attrs |-> {},
                 url |-> <<>>, urlId |-> <<>>]

\* tcell's Style.Normal keeps the colors and drops everything else.
Normal(style) == [fg |-> style.fg, bg |-> style.bg, attrs |-> {},
                  url |-> <<>>, urlId |-> <<>>]

\* ---------------------------------------------------------------- OVStyle
OVStyleEmpty == [Bold |-> FALSE, UnBold |-> FALSE, Dim |-> FALSE, UnDim |-> FALSE,
                 Italic |-> FALSE, UnItalic |-> FALSE,
                 Underline |-> FALSE, UnUnderline |-> FALSE,
                 Blink |-> FALSE, UnBlink |-> FALSE,
                 Reverse |-> FALSE, UnReverse |-> FALSE,
                 StrikeThrough |-> FALSE, UnStrikeThrough |-> FALSE,
                 OverLine |-> FALSE, UnOverLine |-> FALSE,
                 Foreground |-> NoColor, Background |-> NoColor]

\* The attribute pairs of an OVStyle: on-bit, Un-bit, tcell attribute.
AttrPairs == {<<"Bold", "UnBold", "bold">>, <<"Dim", "UnDim", "dim">>,
              <<"Italic", "UnItalic", "italic">>,
              <<"Underline", "UnUnderline", "underline">>,
              <<"Blink", "UnBlink", "blink">>,
              <<"Reverse", "UnReverse", "reverse">>,
              <<"StrikeThrough", "UnStrikeThrough", "strikethrough">>,
              <<"OverLine", "UnOverLine", "overline">>}

\* applyStyle: a non-empty color replaces, an on-bit sets its attribute and
\* an Un-bit, applied after the on-bits, clears it.
applyStyle(style, s) ==
    [style EXCEPT
        !.fg = IF s.Foreground # NoColor THEN s.Foreground ELSE @,
        !.bg = IF s.Background # NoColor THEN s.Background ELSE @,
        !.attrs = (@ \cup {p[3] : p \in {q \in AttrPairs : s[q[1]]}})
                    \ {p[3] : p \in {q \in AttrPairs : s[q[2]]}}]

\* ---------------------------------------------------------------- strings
\* strings.Split(str, sep) for a one-rune separator: the pieces between the
\* separators, one piece (possibly empty) more than there are separators.
RECURSIVE SplitFrom(_, _, _, _)
SplitFrom(str, sep, i, cur) ==
    IF i > Len(str) THEN <<cur>>
    ELSE IF str[i] = sep THEN <<cur>> \o SplitFrom(str, sep, i + 1, <<>>)
    ELSE SplitFrom(str, sep, i + 1, Append(cur, str[i]))

Split(str, sep) == SplitFrom(str, sep, 1, <<>>)

\* unicode.IsDigit: the ASCII digits and the decimal digits of other
\* scripts (one of them, ARABIC-INDIC DIGIT THREE, stands for the rest).
ArabicThree == 1635
IsDigit(char) == (char >= 48 /\ char <= 57) \/ char = ArabicThree

containsNonDigit(str) == \E i \in 1..Len(str) : ~IsDigit(str[i])

\* strconv.Atoi on a string of digits: base 10, an error on a rune that is
\* not an ASCII digit.  (An overflow of int needs 19 digits and is out of
\* the bounds of the model.)
RECURSIVE AtoiFrom(_, _, _)
AtoiFrom(str, i, acc) ==
    IF i > Len(str) THEN [num |-> acc, err |-> FALSE]
    ELSE IF str[i] < 48 \/ str[i] > 57 THEN [num |-> 0, err |-> TRUE]
    ELSE AtoiFrom(str, i + 1, acc * 10 + (str[i] - 48))

Atoi(str) == IF str = <<>> THEN [num |-> 0, err |-> TRUE] ELSE AtoiFrom(str, 1, 0)

sgrNumber(str) ==
    IF str = <<>> THEN [num |-> 0, err |-> FALSE]
    ELSE IF containsNonDigit(str) THEN [num |-> 0, err |-> TRUE]
    ELSE Atoi(str)

\* ------------------------------------------------------------------- SGR
\* Where the code binds a value to a local and reads it several times, the
\* model passes the value to an operator named after the function, so that
\* it is written once.

\* The bright colors named as the normal ones.
colorNameNormalOnly(colorNumber) == PaletteColor(colorNumber % 8)

\* colorName: the palette color of a number in 0..255.
colorName(colorNumber) ==
    IF colorNumber < 0 \/ colorNumber > 255 THEN NoColor
    ELSE PaletteColor(colorNumber)

parse256ColorOf(c) ==
    IF c.err THEN [color |-> NoColor, err |-> TRUE]
    ELSE [color |-> colorName(c.num), err |-> FALSE]

parse256Color(param) ==
    IF param = <<>> THEN [color |-> NoColor, err |-> FALSE]
    ELSE parse256ColorOf(sgrNumber(param))

parseRGBColorOf(r, g, b) ==
    IF r.err \/ g.err \/ b.err THEN [color |-> NoColor, err |-> TRUE]
    ELSE IF r.num > 255 \/ g.num > 255 \/ b.num > 255
         THEN [color |-> NoColor, err |-> FALSE]
         ELSE [color |-> RGBColor(r.num, g.num, b.num), err |-> FALSE]

parseRGBColor(red, green, blue) ==
    IF red = <<>> \/ green = <<>> \/ blue = <<>>
    THEN [color |-> NoColor, err |-> FALSE]
    ELSE parseRGBColorOf(sgrNumber(red), sgrNumber(green), sgrNumber(blue))

\* toSGRCode: the code of paramList[index] and its parameters, the colon
\* tail of the element or, for 38, 48 and 58, the rest of the list.
toSGRCodeOf(paramList, index, colonLists, code) ==
    IF code.err THEN [err |-> TRUE, code |-> 0, params |-> <<>>, colonF |-> FALSE]
    ELSE IF Len(colonLists) > 1
         THEN [err |-> FALSE, code |-> code.num,
               params |-> Tail(colonLists), colonF |-> TRUE]
         ELSE IF code.num \in {38, 48, 58} /\ Len(paramList) > index
              THEN [err |-> FALSE, code |-> code.num,
                    params |-> SubSeq(paramList, index + 1, Len(paramList)),
                    colonF |-> FALSE]
              ELSE [err |-> FALSE, code |-> code.num,
                    params |-> <<>>, colonF |-> FALSE]

toSGRCodeSplit(paramList, index, colonLists) ==
    toSGRCodeOf(paramList, index, colonLists, sgrNumber(colonLists[1]))

toSGRCode(paramList, index) ==
    toSGRCodeSplit(paramList, index, Split(paramList[index], COLON))

\* The returns of convertSGRColor after a color was parsed: on an error the
\* increment is still 1, else it is the number of arguments read.
colorResult(c, inc) ==
    [color |-> c.color, inc |-> IF c.err THEN 1 ELSE inc, err |-> c.err]

\* The RGB values taken after the color space, placeholder or not.
rgbParamsNoPlaceholder(sgr) == SubSeq(sgr.params, 2, 4)

\* 38:2:r:g:b, or 38:2::r:g:b in the colon form.
rgbParams(sgr) ==
    IF sgr.colonF /\ sgr.params[2] = <<>> /\ Len(sgr.params) > 4
    THEN SubSeq(sgr.params, 3, 5)
    ELSE SubSeq(sgr.params, 2, 4)

rgbColor(rgb) == parseRGBColor(rgb[1], rgb[2], rgb[3])

convertSGRColorOf(sgr, ex) ==
    IF ex.err THEN [color |-> NoColor, inc |-> 1, err |-> TRUE]
    ELSE IF ex.num = Colors256
    THEN IF Len(sgr.params) < 2
         THEN [color |-> NoColor, inc |-> 1, err |-> FALSE]
         ELSE colorResult(parse256Color(sgr.params[2]), 2)
    ELSE IF ex.num = ColorsRGB
    THEN IF Len(sgr.params) < 4
         THEN [color |-> NoColor, inc |-> Len(sgr.params), err |-> FALSE]
         ELSE colorResult(rgbColor(rgbParams(sgr)), 4)
    ELSE [color |-> NoColor, inc |-> 1, err |-> FALSE]

convertSGRColor(sgr) ==
    IF Len(sgr.params) = 0 THEN [color |-> NoColor, inc |-> 0, err |-> FALSE]
    ELSE convertSGRColorOf(sgr, sgrNumber(sgr.params[1]))

\* The increment kept in the case of colon too.
parseSGRColorKeepInc(sgr, r) == r

\* In the case of colon, index does not increase.
parseSGRColorOf(sgr, r) == [r EXCEPT !.inc = IF sgr.colonF THEN 0 ELSE @]

parseSGRColor(sgr) == parseSGRColorOf(sgr, convertSGRColor(sgr))

underLineStyleOf(s, n) ==
    IF n.err THEN s
    ELSE IF n.num = 0
         THEN [s EXCEPT !.Underline = FALSE, !.UnUnderline = TRUE]
         ELSE [s EXCEPT !.Underline = TRUE, !.UnUnderline = FALSE]

underLineStyle(s, param) == underLineStyleOf(s, sgrNumber(param))

\* The body of parseSGR's switch for a code without color arguments.
sgrCase(s, sgr, c) ==
    CASE c = 0 -> OVStyleEmpty
      [] c = 1 -> [s EXCEPT !.Bold = TRUE, !.UnBold = FALSE]
      [] c = 2 -> [s EXCEPT !.Dim = TRUE, !.UnDim = FALSE]
      [] c = 3 -> [s EXCEPT !.Italic = TRUE, !.UnItalic = FALSE]
      [] c = 4 -> IF Len(sgr.params) > 0 /\ sgr.params[1] # <<>>
                  THEN underLineStyle(s, sgr.params[1])
                  ELSE [s EXCEPT !.Underline = TRUE, !.UnUnderline = FALSE]
      [] c \in {5, 6} -> [s EXCEPT !.Blink = TRUE, !.UnBlink = FALSE]
      [] c = 7 -> [s EXCEPT !.Reverse = TRUE, !.UnReverse = FALSE]
      [] c = 9 -> [s EXCEPT !.StrikeThrough = TRUE, !.UnStrikeThrough = FALSE]
      [] c = 21 -> [s EXCEPT !.Underline = TRUE, !.UnUnderline = FALSE]
      [] c = 22 -> [s EXCEPT !.Bold = FALSE, !.UnBold = TRUE]
      [] c = 23 -> [s EXCEPT !.Italic = FALSE, !.UnItalic = TRUE]
      [] c = 24 -> [s EXCEPT !.Underline = FALSE, !.UnUnderline = TRUE]
      [] c = 25 -> [s EXCEPT !.Blink = FALSE, !.UnBlink = TRUE]
      [] c = 27 -> [s EXCEPT !.Reverse = FALSE, !.UnReverse = TRUE]
      [] c = 29 -> [s EXCEPT !.StrikeThrough = FALSE, !.UnStrikeThrough = TRUE]
      [] c \in 30..37 -> [s EXCEPT !.Foreground = colorName(c - 30)]
      [] c = 39 -> [s EXCEPT !.Foreground = DefaultColor]
      [] c \in 40..47 -> [s EXCEPT !.Background = colorName(c - 40)]
      [] c = 49 -> [s EXCEPT !.Background = DefaultColor]
      [] c = 53 -> [s EXCEPT !.OverLine = TRUE]
      [] c = 55 -> [s EXCEPT !.UnOverLine = TRUE]
      [] c \in 90..97 -> [s EXCEPT !.Foreground = colorName(c - 82)]
      [] c \in 100..107 -> [s EXCEPT !.Background = colorName(c - 92)]
      [] OTHER -> s

\* The loop of parseSGR from element index on, with s the delta so far:
\* parseSGRCode is its body once toSGRCode has returned sgr, parseSGRExt
\* the cases 38 and 48 and parseSGR58 the case 58 once parseSGRColor has
\* returned c.
RECURSIVE parseSGRLoop(_, _, _)
RECURSIVE parseSGRCode(_, _, _, _)
RECURSIVE parseSGRExt(_, _, _, _, _)
RECURSIVE parseSGR58(_, _, _, _)

parseSGRExt(paramList, index, s, sgr, c) ==
    IF c.err THEN OVStyleEmpty
    ELSE parseSGRLoop(paramList, index + c.inc + 1,
                      IF sgr.code = 38 THEN [s EXCEPT !.Foreground = c.color]
                      ELSE [s EXCEPT !.Background = c.color])

\* Case 58 without the increase of the index.
parseSGR58NoSkip(paramList, index, s, c) ==
    IF c.err THEN s
    ELSE parseSGRLoop(paramList, index + 1, s)

parseSGR58(paramList, index, s, c) ==
    IF c.err THEN s
    ELSE parseSGRLoop(paramList, index + c.inc + 1, s)

\* The loop body with the code applied after the rest of the list, so that
\* the earlier of two codes decides.
parseSGRCodeFirstWins(paramList, index, s, sgr) ==
    IF sgr.err THEN OVStyleEmpty
    ELSE IF sgr.code \in {38, 48}
    THEN parseSGRExt(paramList, index, s, sgr, parseSGRColor(sgr))
    ELSE IF sgr.code = 58
    THEN parseSGR58(paramList, index, s, parseSGRColor(sgr))
    ELSE sgrCase(parseSGRLoop(paramList, index + 1, s), sgr, sgr.code)

parseSGRCode(paramList, index, s, sgr) ==
    IF sgr.err THEN OVStyleEmpty
    ELSE IF sgr.code \in {38, 48}
    THEN parseSGRExt(paramList, index, s, sgr, parseSGRColor(sgr))
    ELSE IF sgr.code = 58
    THEN parseSGR58(paramList, index, s, parseSGRColor(sgr))
    ELSE parseSGRLoop(paramList, index + 1, sgrCase(s, sgr, sgr.code))

parseSGRLoop(paramList, index, s) ==
    IF index > Len(paramList) THEN s
    ELSE parseSGRCode(paramList, index, s, toSGRCode(paramList, index))

parseSGR(paramStr) == parseSGRLoop(Split(paramStr, SEMI), 1, OVStyleEmpty)

\* ------------------------------------------------------------ variables
VARIABLES
    es,        \* the escapeSequence: [state, parameter, url]
    st,        \* the parseState: [mainc, style, eolStyle]
    last,      \* the last call of convert: [from: the state before, consumed]
    trk,       \* the escape sequence in progress, as the input's grammar reads it
    n,         \* the number of runes of the line fed so far
    sgrCache,  \* the process-wide SGR cache: parameter string -> OVStyle
    sg,        \* one call of sgrStyle on a parameter string
    col,       \* the two spellings of an extended color, parsed
    procs,     \* the goroutines calling sgrStyle at once
    root,      \* the Root whose document prepareDraw lays out
    colEnd,    \* one call of findColumnEnd
    input,     \* the Input of a Root and what its key events did
    opts,      \* the boolean options the toggle actions change
    biomap     \* a biomap Map

vars == <<es, st, last, trk, n, sgrCache, sg, col, procs, root,
          colEnd, input, opts, biomap>>

\* ------------------------------------------------------------- sgrStyle
\* Only "0" taken for a reset.
sgrResetOnlyZero(paramStr) == paramStr = <<R0>>

\* The parameter strings sgrStyle answers without parsing.
sgrReset(paramStr) == paramStr \in {<<R0>>, <<>>, <<SEMI>>}

\* sgrCache.Store(key, s)
cacheStore(cache, key, s) ==
    [k \in DOMAIN cache \cup {key} |-> IF k = key THEN s ELSE cache[k]]

\* The cached delta applied to the default style, not to the one in effect.
sgrHitOnDefault(style, s) == applyStyle(StyleDefault, s)

\* The return of sgrStyle on a hit, with the cached delta.
sgrHit(style, s) == applyStyle(style, s)

\* sgrStyle after a miss, with s the delta parsed.
sgrMiss(style, paramStr, cache, s) ==
    [style |-> applyStyle(style, s), cache |-> cacheStore(cache, paramStr, s)]

\* sgrStyle with the cache as an argument and a result: [style, cache].
sgrStyle(style, paramStr, cache) ==
    IF sgrReset(paramStr)
    THEN [style |-> Normal(StyleDefault), cache |-> cache]
    ELSE IF paramStr \in DOMAIN cache
    THEN [style |-> sgrHit(style, cache[paramStr]), cache |-> cache]
    ELSE sgrMiss(style, paramStr, cache, parseSGR(paramStr))

\* ----------------------------------------------------------- interpreter
newESConverter == [state |-> ansiText, parameter |-> <<>>, url |-> <<>>]

\* The result of a handler: the three objects it may change and, for
\* convert and paraseEscapeSequence, the value returned.
Result(e, s, cache, ret) == [es |-> e, st |-> s, cache |-> cache, ret |-> ret]

\* parseCSI's case 'm', with what sgrStyle returned.
parseCSIm(e, s, r) ==
    Result([e EXCEPT !.state = ansiText], [s EXCEPT !.style = r.style], r.cache, TRUE)

\* parseCSI without the return after a parameter rune was written.
parseCSINoReturn(e, s, cache, mainc) ==
    IF mainc = Rm
    THEN parseCSIm(e, s, sgrStyle(s.style, e.parameter, cache))
    ELSE IF mainc = RK
    THEN Result([e EXCEPT !.state = ansiText],
                IF e.parameter = <<>> \/ e.parameter = <<R0>>
                THEN [s EXCEPT !.eolStyle.bg = s.style.bg] ELSE s,
                cache, TRUE)
    ELSE IF mainc >= RA /\ mainc <= RT
    THEN Result([e EXCEPT !.state = ansiText], s, cache, TRUE)
    ELSE IF mainc >= csiParamStart /\ mainc <= csiParamEnd
    THEN Result([e EXCEPT !.parameter = Append(@, mainc), !.state = ansiText],
                s, cache, TRUE)
    ELSE Result([e EXCEPT !.state = ansiText], s, cache, TRUE)

\* parseCSI with every CSI K taken as CSI 0 K.
parseCSIAnyK(e, s, cache, mainc) ==
    IF mainc = Rm
    THEN parseCSIm(e, s, sgrStyle(s.style, e.parameter, cache))
    ELSE IF mainc = RK
    THEN Result([e EXCEPT !.state = ansiText],
                [s EXCEPT !.eolStyle.bg = s.style.bg], cache, TRUE)
    ELSE IF mainc >= RA /\ mainc <= RT
    THEN Result([e EXCEPT !.state = ansiText], s, cache, TRUE)
    ELSE IF mainc >= csiParamStart /\ mainc <= csiParamEnd
    THEN Result([e EXCEPT !.parameter = Append(@, mainc)], s, cache, TRUE)
    ELSE Result([e EXCEPT !.state = ansiText], s, cache, TRUE)

\* parseCSI, with the case of paraseEscapeSequence that calls it.
parseCSI(e, s, cache, mainc) ==
    IF mainc = Rm
    THEN parseCSIm(e, s, sgrStyle(s.style, e.parameter, cache))
    ELSE IF mainc = RK
    THEN Result([e EXCEPT !.state = ansiText],
                IF e.parameter = <<>> \/ e.parameter = <<R0>>
                THEN [s EXCEPT !.eolStyle.bg = s.style.bg] ELSE s,
                cache, TRUE)
    ELSE IF mainc >= RA /\ mainc <= RT
    THEN Result([e EXCEPT !.state = ansiText], s, cache, TRUE)
    ELSE IF mainc >= csiParamStart /\ mainc <= csiParamEnd
    THEN Result([e EXCEPT !.parameter = Append(@, mainc)], s, cache, TRUE)
    ELSE Result([e EXCEPT !.state = ansiText], s, cache, TRUE)

\* The cases of paraseEscapeSequence's switch on es.state, one operator each.
ansiEscapeConsumeAll(e, s, cache, mainc) ==
    CASE mainc = LBRACKET ->
           Result([e EXCEPT !.parameter = <<>>,
                            !.state = ansiControlSequence], s, cache, TRUE)
      [] mainc = Rc ->
           Result([e EXCEPT !.state = ansiText],
                  [s EXCEPT !.style = StyleDefault], cache, TRUE)
      [] mainc = RBRACKET ->
           Result([e EXCEPT !.state = systemSequence], s, cache, TRUE)
      [] mainc \in {RP, RX, RCaret, RUnder} ->
           Result([e EXCEPT !.state = ansiSubstring], s, cache, TRUE)
      [] mainc = LPAREN ->
           Result([e EXCEPT !.state = otherSequence], s, cache, TRUE)
      [] OTHER ->
           Result([e EXCEPT !.state = ansiText], s, cache, TRUE)

ansiEscapeCase(e, s, cache, mainc) ==
    CASE mainc = LBRACKET ->
           Result([e EXCEPT !.parameter = <<>>,
                            !.state = ansiControlSequence], s, cache, TRUE)
      [] mainc = Rc ->
           Result([e EXCEPT !.state = ansiText],
                  [s EXCEPT !.style = StyleDefault], cache, TRUE)
      [] mainc = RBRACKET ->
           Result([e EXCEPT !.state = systemSequence], s, cache, TRUE)
      [] mainc \in {RP, RX, RCaret, RUnder} ->
           Result([e EXCEPT !.state = ansiSubstring], s, cache, TRUE)
      [] mainc = LPAREN ->
           Result([e EXCEPT !.state = otherSequence], s, cache, TRUE)
      [] OTHER ->
           Result([e EXCEPT !.state = ansiText], s, cache, FALSE)

ansiSubstringCase(e, s, cache, mainc) ==
    Result(IF mainc = ESC THEN [e EXCEPT !.state = ansiControlSequence] ELSE e,
           s, cache, TRUE)

otherSequenceCase(e, s, cache, mainc) ==
    Result([e EXCEPT !.state = ansiEscape], s, cache, TRUE)

systemSequenceCase(e, s, cache, mainc) ==
    CASE mainc = R8 ->
           Result([e EXCEPT !.state = oscHyperLink], s, cache, TRUE)
      [] mainc = BSL ->
           Result([e EXCEPT !.state = ansiText], s, cache, TRUE)
      [] mainc = ESC ->
           Result([e EXCEPT !.state = ansiControlSequence], s, cache, TRUE)
      [] mainc = BEL ->
           Result([e EXCEPT !.state = ansiText], s, cache, TRUE)
      [] OTHER -> Result(e, s, cache, TRUE)

oscHyperLinkCase(e, s, cache, mainc) ==
    IF mainc = SEMI
    THEN Result([e EXCEPT !.state = oscParameter], s, cache, TRUE)
    ELSE Result([e EXCEPT !.state = ansiText], s, cache, FALSE)

oscParameterCase(e, s, cache, mainc) ==
    IF mainc # SEMI
    THEN Result([e EXCEPT !.parameter = Append(@, mainc)], s, cache, TRUE)
    ELSE Result([e EXCEPT !.parameter = <<>>, !.state = oscURL],
                IF e.parameter # <<>>
                THEN [s EXCEPT !.style.urlId = e.parameter] ELSE s,
                cache, TRUE)

oscURLCase(e, s, cache, mainc) ==
    CASE mainc = ESC ->
           Result([e EXCEPT !.url = <<>>, !.state = systemSequence],
                  [s EXCEPT !.style.url = e.url], cache, TRUE)
      [] mainc = BEL ->
           Result([e EXCEPT !.url = <<>>, !.state = ansiText],
                  [s EXCEPT !.style.url = e.url], cache, TRUE)
      [] OTHER ->
           Result([e EXCEPT !.url = Append(@, mainc)], s, cache, TRUE)

paraseEscapeSequence(e, s, cache) ==
    CASE e.state = ansiEscape -> ansiEscapeCase(e, s, cache, s.mainc)
      [] e.state = ansiSubstring -> ansiSubstringCase(e, s, cache, s.mainc)
      [] e.state = ansiControlSequence -> parseCSI(e, s, cache, s.mainc)
      [] e.state = otherSequence -> otherSequenceCase(e, s, cache, s.mainc)
      [] e.state = systemSequence -> systemSequenceCase(e, s, cache, s.mainc)
      [] e.state = oscHyperLink -> oscHyperLinkCase(e, s, cache, s.mainc)
      [] e.state = oscParameter -> oscParameterCase(e, s, cache, s.mainc)
      [] e.state = oscURL -> oscURLCase(e, s, cache, s.mainc)
      [] OTHER -> Result(e, s, cache, FALSE)

\* convert with ESC left to the case of the state.
convertEscByState(e, s, cache) ==
    IF s.mainc = LF THEN Result(e, s, cache, FALSE)
    ELSE IF s.mainc = ESC /\ e.state = ansiText
    THEN Result([e EXCEPT !.state = ansiEscape], s, cache, TRUE)
    ELSE paraseEscapeSequence(e, s, cache)

\* convert with the newline left to the case of the state.
convertNewlineByState(e, s, cache) ==
    IF s.mainc = ESC THEN Result([e EXCEPT !.state = ansiEscape], s, cache, TRUE)
    ELSE paraseEscapeSequence(e, s, cache)

\* convert with the newline consumed.
convertNewlineConsumed(e, s, cache) ==
    IF s.mainc = ESC THEN Result([e EXCEPT !.state = ansiEscape], s, cache, TRUE)
    ELSE IF s.mainc = LF THEN Result(e, s, cache, TRUE)
    ELSE paraseEscapeSequence(e, s, cache)

convert(e, s, cache) ==
    IF s.mainc = ESC THEN Result([e EXCEPT !.state = ansiEscape], s, cache, TRUE)
    ELSE IF s.mainc = LF THEN Result(e, s, cache, FALSE)
    ELSE paraseEscapeSequence(e, s, cache)

\* ------------------------------------------------------------- the input
\* The phases of an escape sequence of the input, read by its grammar
\* alone: ESC ] 8 ; id ; url (BEL | ESC \), ESC ] text (BEL | ESC \) and
\* ESC (P|X|^|_) text ESC \.  A sequence is followed from an ESC fed in
\* any state; id and url are the runes of its two fields, ok whether every
\* rune of it so far was consumed, text whether its ESC was fed in Text state.
NoSeq == [phase |-> "none", id |-> <<>>, url |-> <<>>, ok |-> TRUE, text |-> FALSE]

TrackPhase(phase, r) ==
    CASE phase = "esc" ->
           IF r = RBRACKET THEN "osc"
           ELSE IF r \in {RP, RX, RCaret, RUnder} THEN "sub" ELSE "none"
      [] phase = "osc" ->
           IF r = R8 THEN "osc8" ELSE IF r = BEL THEN "doneOsc"
           ELSE IF r = ESC THEN "oscEsc" ELSE IF r = LF THEN "none" ELSE "oscText"
      [] phase = "oscText" ->
           IF r = BEL THEN "doneOsc" ELSE IF r = ESC THEN "oscEsc"
           ELSE IF r = LF THEN "none" ELSE "oscText"
      [] phase = "oscEsc" -> IF r = BSL THEN "doneOsc" ELSE "none"
      [] phase = "osc8" -> IF r = SEMI THEN "param" ELSE "none"
      [] phase = "param" ->
           IF r = SEMI THEN "url" ELSE IF r \in {ESC, BEL, LF} THEN "none" ELSE "param"
      [] phase = "url" ->
           IF r = BEL THEN "done8" ELSE IF r = ESC THEN "urlEsc"
           ELSE IF r = LF THEN "none" ELSE "url"
      [] phase = "urlEsc" -> IF r = BSL THEN "done8" ELSE "none"
      [] phase = "sub" ->
           IF r = ESC THEN "subEsc" ELSE IF r = LF THEN "none" ELSE "sub"
      [] phase = "subEsc" -> IF r = BSL THEN "doneSub" ELSE "none"
      [] OTHER -> "none"

TrackTo(t, p, r, consumed) ==
    IF p = "none" THEN NoSeq
    ELSE [phase |-> p,
          id |-> IF t.phase = "param" /\ p = "param" THEN Append(t.id, r) ELSE t.id,
          url |-> IF t.phase = "url" /\ p = "url" THEN Append(t.url, r) ELSE t.url,
          ok |-> t.ok /\ consumed,
          text |-> t.text]

TrackNext(t, state, r, consumed) ==
    IF t.phase \in {"none", "done8", "doneOsc", "doneSub"}
    THEN IF r = ESC
         THEN [phase |-> "esc", id |-> <<>>, url |-> <<>>, ok |-> consumed,
               text |-> state = ansiText]
         ELSE NoSeq
    ELSE TrackTo(t, TrackPhase(t.phase, r), r, consumed)

\* The runes a line is made of.
Runes == {ESC, BEL, LF, LBRACKET, RBRACKET, BSL, LPAREN, Rc, RP, R8, SEMI,
          Rm, RK, R0, R4, Ru}

\* The longest line fed to one interpreter, and the longest parameter and
\* URL it collects.
MaxLine == 9
MaxParam == 2
MaxUrl == 1

\* ----------------------------------------------------------------- Spec
InitInterpreter ==
    /\ es = newESConverter
    /\ st = [mainc |-> 0, style |-> StyleDefault, eolStyle |-> StyleDefault]
    /\ last = [from |-> ansiText, consumed |-> FALSE]
    /\ trk = NoSeq
    /\ n = 0

InitSgr == sg = [paramStr |-> <<>>, style |-> StyleDefault, out |-> StyleDefault,
                 pc |-> "off"]

InitCol == col = [pc |-> "off"]

InitProcs == procs = << >>

InitRoot == root = [pc |-> "off"]

InitColEnd == colEnd = [pc |-> "off"]

InitInput == input = [pc |-> "off"]

InitOpts == opts = [pc |-> "off"]

InitBiomap == biomap = [pc |-> "off"]

\* The parts that take no part in the interpreter or in a frame.
InitRest == InitColEnd /\ InitInput /\ InitOpts /\ InitBiomap

Init ==
    /\ InitInterpreter
    /\ sgrCache = << >>
    /\ InitSgr
    /\ InitCol
    /\ InitProcs
    /\ InitRoot
    /\ InitRest

\* The line builder sets st.mainc to the next rune and calls convert.
Converted(r, res) ==
    /\ Len(res.es.parameter) <= MaxParam
    /\ Len(res.es.url) <= MaxUrl
    /\ es' = res.es
    /\ st' = res.st
    /\ sgrCache' = res.cache
    /\ last' = [from |-> es.state, consumed |-> res.ret]
    /\ trk' = TrackNext(trk, es.state, r, res.ret)

Convert(r) ==
    /\ n < MaxLine
    /\ Converted(r, convert(es, [st EXCEPT !.mainc = r], sgrCache))
    /\ n' = n + 1
    /\ UNCHANGED <<sg, col, procs, root, colEnd, input, opts, biomap>>

Next == \E r \in Runes : Convert(r)

Spec == Init /\ [][Next]_vars

\* A step of Spec that feeds a rune.
Fed == n' = n + 1

\* ------------------------------------------------- claims on the interpreter
\* C1 (as claimed): after the terminator of ESC ] 8 ; id ; url fed from Text
\* state, BEL or ESC \, style.url is the URL of the sequence, every rune of
\* the sequence was consumed and the state is Text.
C1_HyperlinkTerminated ==
    (trk.phase = "done8" /\ trk.text) =>
        /\ st.style.url = trk.url
        /\ trk.ok
        /\ es.state = ansiText

\* C2 (as claimed): at the second ';' of an OSC 8 sequence a non-empty
\* parameter field becomes style.urlId and an empty one leaves it unchanged,
\* whatever was processed before.
C2_UrlIdIsParameterField ==
    [][(Fed /\ trk.phase = "param" /\ st'.mainc = SEMI) =>
          st'.style.urlId = IF trk.id # <<>> THEN trk.id ELSE st.style.urlId]_vars

\* C6 (as claimed): in Esc state '[' goes to CSI with the parameter cleared,
\* 'c' resets the style and goes to Text, ']' goes to OSC, P X ^ _ go to
\* Substring, '(' goes to OtherSeq, all consumed; any other rune goes to
\* Text and is not consumed.
C6_EscDispatchAnyOther ==
    (n > 0 /\ last.from = ansiEscape) =>
        CASE st.mainc = LBRACKET ->
               es.state = ansiControlSequence /\ es.parameter = <<>> /\ last.consumed
          [] st.mainc = Rc ->
               es.state = ansiText /\ st.style = StyleDefault /\ last.consumed
          [] st.mainc = RBRACKET -> es.state = systemSequence /\ last.consumed
          [] st.mainc \in {RP, RX, RCaret, RUnder} ->
               es.state = ansiSubstring /\ last.consumed
          [] st.mainc = LPAREN -> es.state = otherSequence /\ last.consumed
          [] OTHER -> es.state = ansiText /\ ~last.consumed

\* C6 (amended): the same, but of the other runes ESC is consumed and keeps
\* the state Esc, a newline is not consumed and keeps the state Esc, and
\* every rune other than these two goes to Text and is not consumed.
C6_EscDispatch ==
    (n > 0 /\ last.from = ansiEscape) =>
        CASE st.mainc = LBRACKET ->
               es.state = ansiControlSequence /\ es.parameter = <<>> /\ last.consumed
          [] st.mainc = Rc ->
               es.state = ansiText /\ st.style = StyleDefault /\ last.consumed
          [] st.mainc = RBRACKET -> es.state = systemSequence /\ last.consumed
          [] st.mainc \in {RP, RX, RCaret, RUnder} ->
               es.state = ansiSubstring /\ last.consumed
          [] st.mainc = LPAREN -> es.state = otherSequence /\ last.consumed
          [] st.mainc = ESC -> es.state = ansiEscape /\ last.consumed
          [] st.mainc = LF -> es.state = ansiEscape /\ ~last.consumed
          [] OTHER -> es.state = ansiText /\ ~last.consumed

\* Esc state saw a rune that starts no sequence, after a style was set.
C6_Witness ==
    /\ last.from = ansiEscape
    /\ st.mainc = Ru
    /\ es.state = ansiText
    /\ ~last.consumed
    /\ st.style # StyleDefault

\* C7: in CSI state a rune in [0x20,0x3F] is appended to the parameter, is
\* consumed and leaves the state CSI; a final in [0x40,0x7E] is consumed and
\* returns to Text; only 'm' changes the style and only 'K' the eolStyle.
C7_CSI ==
    [][(Fed /\ es.state = ansiControlSequence) =>
          /\ (st'.mainc \in csiParamStart..csiParamEnd =>
                /\ es'.parameter = Append(es.parameter, st'.mainc)
                /\ es'.state = ansiControlSequence
                /\ last'.consumed
                /\ st'.style = st.style
                /\ st'.eolStyle = st.eolStyle)
          /\ (st'.mainc \in 64..126 =>
                /\ es'.state = ansiText
                /\ last'.consumed
                /\ (st'.mainc # Rm => st'.style = st.style)
                /\ (st'.mainc # RK => st'.eolStyle = st.eolStyle))]_vars

\* CSI K has set the eolStyle's background to one that CSI m had set.
C7_Witness ==
    /\ last.from = ansiControlSequence
    /\ st.mainc = RK
    /\ es.state = ansiText
    /\ st.eolStyle.bg # DefaultColor
    /\ st.eolStyle.bg = st.style.bg

\* C17: CSI K with the parameter "" or "0" sets the eolStyle's background to
\* the style's background and changes nothing else of the eolStyle; with
\* any other parameter the eolStyle is unchanged; the style is unchanged in
\* every case.
C17_EraseInLine ==
    [][(Fed /\ es.state = ansiControlSequence /\ st'.mainc = RK) =>
          /\ st'.style = st.style
          /\ st'.eolStyle = IF es.parameter \in {<<>>, <<R0>>}
                            THEN [st.eolStyle EXCEPT !.bg = st.style.bg]
                            ELSE st.eolStyle]_vars

\* CSI 4 K after CSI 40 m has left the eolStyle's background the default.
C17_Witness ==
    /\ last.from = ansiControlSequence
    /\ st.mainc = RK
    /\ es.parameter = <<R4>>
    /\ st.style.bg = PaletteColor(0)
    /\ st.eolStyle = StyleDefault

\* C8 (as claimed): after the terminator of ESC ] text (BEL | ESC \) and of
\* ESC (P|X|^|_) text ESC \ every rune of the sequence was consumed and the
\* state is Text.
C8_SequencesHidden ==
    trk.phase \in {"doneOsc", "doneSub"} => (trk.ok /\ es.state = ansiText)

\* C9: in Text state a rune other than ESC is not consumed and changes
\* neither the state, the parameter and URL buffers, the style nor the
\* eolStyle.
C9_PlainText ==
    [][(Fed /\ es.state = ansiText /\ st'.mainc # ESC) =>
          /\ ~last'.consumed
          /\ es' = es
          /\ st'.style = st.style
          /\ st'.eolStyle = st.eolStyle]_vars

\* A plain rune and a newline were fed in Text state after an SGR sequence
\* had set the style and left its parameter in the buffer.
C9_Witness ==
    /\ last.from = ansiText
    /\ st.mainc \in {Ru, LF}
    /\ es.state = ansiText
    /\ ~last.consumed
    /\ es.parameter # <<>>
    /\ st.style # StyleDefault

\* C33: after ESC ( X, X any rune but ESC and newline, '(' and X are
\* consumed and the state is Text again, so that the rune after X is plain
\* text.
C33_CharsetBackToText ==
    (n > 0 /\ last.from = otherSequence /\ st.mainc \notin {ESC, LF}) =>
        /\ last.consumed
        /\ es.state = ansiText

\* C34: ESC is consumed in every state and moves the state to Esc; the
\* sequence in progress is dropped and not applied: the style, the
\* eolStyle and the two buffers stay as they are, and the state is never
\* the one the ESC cases of Substring, OSC and OSC_URL would set.
C34_EscEverywhere ==
    [][(Fed /\ st'.mainc = ESC) =>
          /\ last'.consumed
          /\ es'.state = ansiEscape
          /\ es'.parameter = es.parameter
          /\ es'.url = es.url
          /\ st'.style = st.style
          /\ st'.eolStyle = st.eolStyle]_vars

\* ESC was fed in OSC_URL state with a URL collected and no URL in the
\* style.
C34_Witness ==
    /\ last.from = oscURL
    /\ st.mainc = ESC
    /\ es.state = ansiEscape
    /\ es.url # <<>>
    /\ st.style.url = <<>>

\* C35: a newline is never consumed, whatever the state, and changes
\* neither the state, the parameter and URL buffers, the style nor the
\* eolStyle.
C35_NewlineKept ==
    [][(Fed /\ st'.mainc = LF) =>
          /\ ~last'.consumed
          /\ es' = es
          /\ st'.style = st.style
          /\ st'.eolStyle = st.eolStyle]_vars

\* A newline was fed in the middle of the URL of a hyperlink.
C35_Witness ==
    /\ last.from = oscURL
    /\ st.mainc = LF
    /\ es.state = oscURL
    /\ es.url # <<>>
    /\ ~last.consumed

\* ------------------------------------------------------------- SpecSGR
\* strings.Join(list, sep) for a one-rune separator.
RECURSIVE Join(_, _)
Join(list, sep) ==
    IF list = <<>> THEN <<>>
    ELSE IF Len(list) = 1 THEN list[1]
    ELSE list[1] \o <<sep>> \o Join(Tail(list), sep)

\* The lists of at most k elements of a set.
RECURSIVE ListsUpTo(_, _)
ListsUpTo(S, k) ==
    IF k = 0 THEN {<<>>}
    ELSE ListsUpTo(S, k - 1)
           \cup {Append(l, x) : l \in {m \in ListsUpTo(S, k - 1) : Len(m) = k - 1}, x \in S}

\* The elements an SGR parameter string is made of:
\* "", "0", "1", "2", "5", "41", "38", "58", "x" and "4:x".
SGRTokens == {<<>>, <<48>>, <<49>>, <<50>>, <<53>>, <<52, 49>>, <<51, 56>>,
              <<53, 56>>, <<120>>, <<52, 58, 120>>}

\* The most elements of a parameter string.
MaxElems == 4

\* The styles in effect before a sequence: the default, and one with a
\* color, an attribute and a hyperlink.
SGRStyles == {StyleDefault,
              [fg |-> PaletteColor(1), bg |-> DefaultColor, attrs |-> {"underline"},
               url |-> <<Ru>>, urlId |-> <<>>]}

InitSGR ==
    /\ InitInterpreter
    /\ sgrCache = << >>
    /\ InitCol
    /\ InitProcs
    /\ InitRoot
    /\ InitRest
    /\ \E l \in ListsUpTo(SGRTokens, MaxElems), style \in SGRStyles :
          sg = [paramStr |-> Join(l, SEMI), style |-> style, out |-> style,
                pc |-> "call"]

SgrReturned(r) ==
    /\ sg' = [sg EXCEPT !.out = r.style, !.pc = "done"]
    /\ sgrCache' = r.cache

\* One call of sgrStyle, as parseCSI makes it.
SgrCall ==
    /\ sg.pc = "call"
    /\ SgrReturned(sgrStyle(sg.style, sg.paramStr, sgrCache))
    /\ UNCHANGED <<es, st, last, trk, n, col, procs, root, colEnd, input, opts, biomap>>

NextSGR == SgrCall

SpecSGR == InitSGR /\ [][NextSGR]_vars

\* A rune that is neither an ASCII digit nor a separator stands where a
\* number is expected.
HasNonDigit(str) ==
    \E i \in 1..Len(str) : ~(str[i] >= 48 /\ str[i] <= 57) /\ str[i] \notin {SEMI, COLON}

\* C3 (as claimed): a parameter string with a non-digit where a number is
\* expected parses to the empty delta, whatever valid codes precede the bad
\* element, and so does the delta the call has left in the cache; no change
\* of the style follows from that.
C3_BadParameterNoChange ==
    (sg.pc = "done" /\ HasNonDigit(sg.paramStr)) =>
        /\ parseSGR(sg.paramStr) = OVStyleEmpty
        /\ sgrCache[sg.paramStr] = OVStyleEmpty

\* C4 (as claimed): a parameter 0, or an empty one, resets the style to the
\* default normal one, alone and as an element of a list: after "0;1" and
\* ";1" the style is the default normal one plus bold, for every style
\* before.
C4_ZeroResetsInList ==
    sg.pc = "done" =>
        /\ (sg.paramStr \in {<<48>>, <<>>, <<SEMI>>} => sg.out = Normal(StyleDefault))
        /\ (sg.paramStr \in {<<48, SEMI, 49>>, <<SEMI, 49>>} =>
               sg.out = [Normal(StyleDefault) EXCEPT !.attrs = {"bold"}])

\* ------------------------------------------------------------ SpecColor
\* strconv.Itoa for a number >= 0.
RECURSIVE Itoa(_)
Itoa(k) == IF k < 10 THEN <<48 + k>> ELSE Itoa(k \div 10) \o <<48 + (k % 10)>>

\* The values of a color argument, of one, two and three digits.
ColorValues == {0, 10, 255}

\* The arguments of an extended color: 5;n and 2;r;g;b.
ColorArgs == {<<Colors256, v>> : v \in ColorValues}
               \cup {<<ColorsRGB, r, g, b>> : r \in ColorValues, g \in ColorValues,
                                               b \in ColorValues}

\* The elements of the list that follows the color:
\* "", "0", "1", "2", "5", "38", "x" and "4:0".
TailTokens == {<<>>, <<48>>, <<49>>, <<50>>, <<53>>, <<51, 56>>, <<120>>,
               <<52, 58, 48>>}

\* The most elements of the list that follows the color.
MaxTail == 2

ItoaAll(args) == [i \in 1..Len(args) |-> Itoa(args[i])]

\* c;5;n;T and c;2;r;g;b;T
SemicolonSpelling(c, args, T) == Join(<<Itoa(c)>> \o ItoaAll(args) \o T, SEMI)

\* c:5:n;T and c:2:r:g:b;T
ColonSpelling(c, args, T) == Join(<<Join(<<Itoa(c)>> \o ItoaAll(args), COLON)>> \o T, SEMI)

\* c:2::r:g:b;T, with an empty placeholder before the RGB values; the 256
\* color form has no placeholder.
PlaceholderSpelling(c, args, T) ==
    IF args[1] = ColorsRGB
    THEN Join(<<Join(<<Itoa(c), Itoa(ColorsRGB), <<>>>> \o ItoaAll(Tail(args)), COLON)>>
                \o T, SEMI)
    ELSE ColonSpelling(c, args, T)

InitColor ==
    /\ InitInterpreter
    /\ sgrCache = << >>
    /\ InitSgr
    /\ InitProcs
    /\ InitRoot
    /\ InitRest
    /\ \E c \in {38, 48}, args \in ColorArgs, T \in ListsUpTo(TailTokens, MaxTail) :
          col = [pc |-> "call", c |-> c, args |-> args, tail |-> T,
                 semi |-> SemicolonSpelling(c, args, T),
                 colon |-> ColonSpelling(c, args, T),
                 placeholder |-> PlaceholderSpelling(c, args, T),
                 dSemi |-> OVStyleEmpty, dColon |-> OVStyleEmpty,
                 dPlaceholder |-> OVStyleEmpty]

\* parseSGR on the spellings.
ColorParse ==
    /\ col.pc = "call"
    /\ col' = [col EXCEPT !.dSemi = parseSGR(col.semi),
                          !.dColon = parseSGR(col.colon),
                          !.dPlaceholder = parseSGR(col.placeholder),
                          !.pc = "done"]
    /\ UNCHANGED <<es, st, last, trk, n, sgrCache, sg, procs, root, colEnd, input, opts, biomap>>

NextColor == ColorParse

SpecColor == InitColor /\ [][NextColor]_vars

\* The color the arguments name.
ArgsColor(args) ==
    IF args[1] = Colors256 THEN PaletteColor(args[2])
    ELSE RGBColor(args[2], args[3], args[4])

\* The delta of the color alone.
ColorDelta(c, args) ==
    IF c = 38 THEN [OVStyleEmpty EXCEPT !.Foreground = ArgsColor(args)]
    ELSE [OVStyleEmpty EXCEPT !.Background = ArgsColor(args)]

\* C5: for c in {38, 48} the semicolon spelling c;5;n;T, c;2;r;g;b;T and
\* the colon spelling c:5:n;T, c:2:r:g:b;T parse to the same delta, which
\* is the color followed by every element of T read as a code of its own.
C5_SpellingsAgree ==
    col.pc = "done" =>
        /\ col.dSemi = col.dColon
        /\ col.dSemi = parseSGRLoop(col.tail, 1, ColorDelta(col.c, col.args))

\* An RGB color was parsed in both spellings and the code after it applied.
C5_Witness ==
    /\ col.pc = "done"
    /\ col.args[1] = ColorsRGB
    /\ col.tail = <<<<49>>>>
    /\ col.dSemi.Bold
    /\ col.dColon.Bold
    /\ col.dSemi.Foreground = RGBColor(255, 0, 10)

\* C15: the colon spelling with an empty placeholder, c:2::r:g:b, parses
\* to the delta of c:2:r:g:b, whose color is #rrggbb, as foreground for 38
\* and as background for 48.
C15_PlaceholderAgrees ==
    (col.pc = "done" /\ col.args[1] = ColorsRGB) =>
        /\ col.dPlaceholder = col.dColon
        /\ (col.tail = <<>> => col.dPlaceholder = ColorDelta(col.c, col.args))

\* 48:2::0:255:10 has given the background #00ff0a and nothing else.
C15_Witness ==
    /\ col.pc = "done"
    /\ col.placeholder = <<52, 56, 58, 50, 58, 58, 48, 58, 50, 53, 53, 58, 49, 48>>
    /\ col.dPlaceholder.Background = RGBColor(0, 255, 10)
    /\ col.dPlaceholder.Foreground = NoColor
    /\ col.dColon.Background = RGBColor(0, 255, 10)

\* ------------------------------------------------------------ SpecCache
\* The goroutines that build lines at once.
NumProcs == 2

Procs == 1..NumProcs

\* The parameter strings they see: "0", "", ";", "1", "41" and "0;1".
CacheParams == {<<48>>, <<>>, <<SEMI>>, <<49>>, <<52, 49>>, <<48, SEMI, 49>>}

Idle == [pc |-> "idle", paramStr |-> <<>>, style |-> StyleDefault,
         s |-> OVStyleEmpty, out |-> StyleDefault, hit |-> FALSE]

InitCache ==
    /\ InitInterpreter
    /\ sgrCache = << >>
    /\ InitSgr
    /\ InitCol
    /\ procs = [p \in Procs |-> Idle]
    /\ InitRoot
    /\ InitRest

\* sgrStyle is called: the strings that reset return at once.
SgrBegin(p) ==
    /\ procs[p].pc = "idle"
    /\ \E paramStr \in CacheParams, style \in SGRStyles :
          procs' = [procs EXCEPT ![p] =
                      IF sgrReset(paramStr)
                      THEN [Idle EXCEPT !.pc = "done", !.paramStr = paramStr,
                                        !.style = style,
                                        !.out = Normal(StyleDefault)]
                      ELSE [Idle EXCEPT !.pc = "load", !.paramStr = paramStr,
                                        !.style = style]]
    /\ UNCHANGED <<es, st, last, trk, n, sgrCache, sg, col, root, colEnd, input, opts, biomap>>

\* sgrCache.Load: a hit returns, a miss parses.
SgrLoad(p) ==
    /\ procs[p].pc = "load"
    /\ procs' = [procs EXCEPT ![p] =
                   IF procs[p].paramStr \in DOMAIN sgrCache
                   THEN [procs[p] EXCEPT
                           !.pc = "done", !.hit = TRUE,
                           !.out = sgrHit(procs[p].style, sgrCache[procs[p].paramStr])]
                   ELSE [procs[p] EXCEPT
                           !.pc = "store", !.s = parseSGR(procs[p].paramStr)]]
    /\ UNCHANGED <<es, st, last, trk, n, sgrCache, sg, col, root, colEnd, input, opts, biomap>>

\* sgrCache.Store, and the return.
SgrStore(p) ==
    /\ procs[p].pc = "store"
    /\ sgrCache' = cacheStore(sgrCache, procs[p].paramStr, procs[p].s)
    /\ procs' = [procs EXCEPT ![p] =
                   [procs[p] EXCEPT
                      !.pc = "done", !.out = applyStyle(procs[p].style, procs[p].s)]]
    /\ UNCHANGED <<es, st, last, trk, n, sg, col, root, colEnd, input, opts, biomap>>

\* The caller takes the result.
SgrDone(p) ==
    /\ procs[p].pc = "done"
    /\ procs' = [procs EXCEPT ![p] = Idle]
    /\ UNCHANGED <<es, st, last, trk, n, sgrCache, sg, col, root, colEnd, input, opts, biomap>>

NextCache == \E p \in Procs : SgrBegin(p) \/ SgrLoad(p) \/ SgrStore(p) \/ SgrDone(p)

SpecCache == InitCache /\ [][NextCache]_vars

\* Every value stored under a key is parseSGR of the key, and two inserts
\* that race for a key store the same value.
CacheSound ==
    /\ \A k \in DOMAIN sgrCache : sgrCache[k] = parseSGR(k)
    /\ \A p, q \in Procs :
          (procs[p].pc = "store" /\ procs[q].pc = "store"
             /\ procs[p].paramStr = procs[q].paramStr) => procs[p].s = procs[q].s

\* C10 (as claimed): under any interleaving the cache is sound and every
\* call returns applyStyle(style, parseSGR(p)), hit or miss.
C10_CallsReturnParsed ==
    /\ CacheSound
    /\ \A p \in Procs :
          procs[p].pc = "done" =>
              procs[p].out = applyStyle(procs[p].style, parseSGR(procs[p].paramStr))

\* C10 (amended): under any interleaving the cache is sound and every call
\* with a parameter string other than "0", "" and ";" returns
\* applyStyle(style, parseSGR(p)), hit or miss; with one of these three it
\* returns the default normal style.
C10_CallsReturnParsedOrReset ==
    /\ CacheSound
    /\ \A p \in Procs :
          procs[p].pc = "done" =>
              procs[p].out = IF sgrReset(procs[p].paramStr)
                             THEN Normal(StyleDefault)
                             ELSE applyStyle(procs[p].style,
                                             parseSGR(procs[p].paramStr))

\* Two calls with one parameter string and a style that is not the default
\* have returned, one after a miss and one after a hit.
C10_Witness ==
    \E p, q \in Procs :
        /\ procs[p].pc = "done" /\ procs[q].pc = "done"
        /\ procs[p].paramStr = procs[q].paramStr
        /\ procs[p].hit /\ ~procs[q].hit
        /\ procs[p].style # StyleDefault
        /\ procs[p].paramStr \in DOMAIN sgrCache

\* C13: sgrStyle with "0", "" or ";" returns the default normal style for
\* every style, without a look into the cache and without a parse, and no
\* delta is ever stored under one of these three strings.
C13_ResetStrings ==
    /\ \A p \in Procs :
          (procs[p].pc = "done" /\ procs[p].paramStr \in {<<48>>, <<>>, <<SEMI>>}) =>
              /\ procs[p].out = Normal(StyleDefault)
              /\ ~procs[p].hit
              /\ procs[p].s = OVStyleEmpty
    /\ DOMAIN sgrCache \cap {<<48>>, <<>>, <<SEMI>>} = {}

\* A call with ";" and a style that is not the default has returned the
\* default normal style while the cache holds deltas of other calls.
C13_Witness ==
    \E p \in Procs :
        /\ procs[p].pc = "done"
        /\ procs[p].paramStr = <<SEMI>>
        /\ procs[p].style # StyleDefault
        /\ procs[p].out = Normal(StyleDefault)
        /\ DOMAIN sgrCache # {}

\* ---------------------------------------------------------- SpecIgnored
\* The codes that are applied: "1", "4", "22", "31", "0" and "".
AppliedItems == {[ignored |-> FALSE, elems |-> <<e>>] :
                    e \in {<<49>>, <<52>>, <<50, 50>>, <<51, 49>>, <<48>>, <<>>}}

\* The arguments of 58 in the two color spaces.
UnderlineColorArgs == {<<Colors256, 0>>, <<Colors256, 1>>, <<Colors256, 255>>,
                       <<ColorsRGB, 0, 10, 255>>, <<ColorsRGB, 1, 3, 7>>}

\* The codes that are not implemented: 58 with its arguments in the
\* semicolon and in the colon spelling, 59 and 73..75.
IgnoredItems ==
    {[ignored |-> TRUE, elems |-> <<Itoa(58)>> \o ItoaAll(args)] :
        args \in UnderlineColorArgs}
    \cup {[ignored |-> TRUE, elems |-> <<Join(<<Itoa(58)>> \o ItoaAll(args), COLON)>>] :
        args \in UnderlineColorArgs}
    \cup {[ignored |-> TRUE, elems |-> <<Itoa(c)>>] : c \in {59, 73, 74, 75}}

\* The most codes of a list.
MaxItems == 3

\* The elements of a list of items, without the ignored ones if not all.
RECURSIVE Elems(_, _)
Elems(items, all) ==
    IF items = <<>> THEN <<>>
    ELSE (IF all \/ ~Head(items).ignored THEN Head(items).elems ELSE <<>>)
           \o Elems(Tail(items), all)

InitIgnored ==
    /\ InitInterpreter
    /\ sgrCache = << >>
    /\ InitSgr
    /\ InitProcs
    /\ InitRoot
    /\ InitRest
    /\ \E items \in ListsUpTo(AppliedItems \cup IgnoredItems, MaxItems) :
          col = [pc |-> "call", items |-> items,
                 full |-> Join(Elems(items, TRUE), SEMI),
                 plain |-> Join(Elems(items, FALSE), SEMI),
                 dFull |-> OVStyleEmpty, dPlain |-> OVStyleEmpty]

\* parseSGR on the list and on the list without the ignored codes.
IgnoredParse ==
    /\ col.pc = "call"
    /\ col' = [col EXCEPT !.dFull = parseSGR(col.full),
                          !.dPlain = parseSGR(col.plain),
                          !.pc = "done"]
    /\ UNCHANGED <<es, st, last, trk, n, sgrCache, sg, procs, root, colEnd, input, opts, biomap>>

NextIgnored == IgnoredParse

SpecIgnored == InitIgnored /\ [][NextIgnored]_vars

\* C14: a list with 58 and its color arguments (58;5;n, 58;2;r;g;b,
\* 58:5:n, 58:2:r:g:b), 59 and 73..75 parses to the delta of the list
\* without them; the arguments of 58 are never applied as codes.
C14_NotImplementedIgnored == col.pc = "done" => col.dFull = col.dPlain

\* Bold, then 58;5;1 whose arguments would be blink and bold, then 22:
\* bold is off and blink was never set.
C14_Witness ==
    /\ col.pc = "done"
    /\ col.full = <<49, 59, 53, 56, 59, 53, 59, 49, 59, 50, 50>>
    /\ col.plain = <<49, 59, 50, 50>>
    /\ col.dFull.UnBold
    /\ ~col.dFull.Bold
    /\ ~col.dFull.Blink

\* ------------------------------------------------------------ SpecCodes
\* The attribute codes of parseSGR's switch.
AttrCodeSet == {1, 2, 3, 4, 5, 6, 7, 8, 9, 21, 22, 23, 24, 25, 27, 28, 29, 53, 55}

\* The basic color codes of parseSGR's switch.
ColorCodeSet == (30..37) \cup {39} \cup (40..47) \cup {49} \cup (90..97) \cup (100..107)

\* The most codes of a list of attribute codes.
MaxAttrs == 2

\* The most codes of a list of color codes.
MaxColors == 2

\* The style in effect before the sequence.
PriorStyle == CHOOSE style \in SGRStyles : style # StyleDefault

InitCodes ==
    /\ InitInterpreter
    /\ sgrCache = << >>
    /\ InitCol
    /\ InitProcs
    /\ InitRoot
    /\ InitRest
    /\ \E codes \in ListsUpTo(AttrCodeSet, MaxAttrs)
                      \cup ListsUpTo(ColorCodeSet, MaxColors) :
          sg = [paramStr |-> Join(ItoaAll(codes), SEMI), style |-> PriorStyle,
                out |-> PriorStyle, pc |-> "call", codes |-> codes]

SpecCodes == InitCodes /\ [][NextSGR]_vars

\* The call has returned and has left the delta it parsed in the cache.
Parsed == sg.pc = "done" /\ sg.paramStr \in DOMAIN sgrCache

\* The place of the last code of the list that is in cs, 0 if there is none.
LastIn(codes, cs) ==
    LET I == {i \in 1..Len(codes) : codes[i] \in cs}
    IN IF I = {} THEN 0 ELSE CHOOSE i \in I : \A j \in I : j <= i

\* C11 (as claimed): no delta has an on-bit and its paired Un-bit both set;
\* 53 then 55 gives UnOverLine without OverLine, and 55 then 53 gives
\* OverLine without UnOverLine.
C11_OnAndUnExclusive ==
    Parsed =>
        /\ \A p \in AttrPairs :
              ~(sgrCache[sg.paramStr][p[1]] /\ sgrCache[sg.paramStr][p[2]])
        /\ (sg.codes = <<53, 55>> =>
               sgrCache[sg.paramStr].UnOverLine /\ ~sgrCache[sg.paramStr].OverLine)
        /\ (sg.codes = <<55, 53>> =>
               sgrCache[sg.paramStr].OverLine /\ ~sgrCache[sg.paramStr].UnOverLine)

\* The attributes with their on-codes and their off-codes.
OnOffCodes ==
    {[on |-> "Bold", un |-> "UnBold", onCodes |-> {1}, offCodes |-> {22}],
     [on |-> "Dim", un |-> "UnDim", onCodes |-> {2}, offCodes |-> {}],
     [on |-> "Italic", un |-> "UnItalic", onCodes |-> {3}, offCodes |-> {23}],
     [on |-> "Underline", un |-> "UnUnderline", onCodes |-> {4, 21}, offCodes |-> {24}],
     [on |-> "Blink", un |-> "UnBlink", onCodes |-> {5, 6}, offCodes |-> {25}],
     [on |-> "Reverse", un |-> "UnReverse", onCodes |-> {7}, offCodes |-> {27}],
     [on |-> "StrikeThrough", un |-> "UnStrikeThrough", onCodes |-> {9},
      offCodes |-> {29}]}

\* The later of the last on-code and the last off-code decides the two bits.
LaterDecides(d, codes, a) ==
    /\ d[a.on] = (LastIn(codes, a.onCodes) > LastIn(codes, a.offCodes))
    /\ d[a.un] = (LastIn(codes, a.offCodes) > LastIn(codes, a.onCodes))

\* C12: an on-code sets its bit and clears the Un-bit, an off-code sets the
\* Un-bit and clears the on-bit, 8 and 28 change nothing, and of an on-code
\* and its off-code in one list the later one decides.
C12_OnOffCodes ==
    Parsed => \A a \in OnOffCodes : LaterDecides(sgrCache[sg.paramStr], sg.codes, a)

\* Bold was set and then cleared.
C12_Witness ==
    /\ Parsed
    /\ sg.codes = <<1, 22>>
    /\ sgrCache[sg.paramStr].UnBold
    /\ ~sgrCache[sg.paramStr].Bold
    /\ "bold" \notin sg.out.attrs

\* The color a basic color code names: 39 and 49 "default", 30..37 and
\* 40..47 the palette colors 0..7, 90..97 and 100..107 the colors 8..15.
BasicColor(c) ==
    IF c \in {39, 49} THEN DefaultColor
    ELSE IF c \in (30..37) \cup (40..47) THEN PaletteColor(c % 10)
    ELSE PaletteColor(8 + (c % 10))

ForegroundCodes == (30..37) \cup {39} \cup (90..97)

BackgroundCodes == (40..47) \cup {49} \cup (100..107)

\* The color of the last code of cs in the list, none if there is no such code.
LastColor(codes, cs) ==
    IF LastIn(codes, cs) = 0 THEN NoColor ELSE BasicColor(codes[LastIn(codes, cs)])

\* C16: 30..37 and 90..97 set the foreground to the palette colors 0..7 and
\* 8..15, 40..47 and 100..107 the background, 39 and 49 set them to
\* "default"; the foreground is decided by the foreground codes alone and
\* the background by the background codes alone.
C16_BasicColors ==
    Parsed =>
        /\ sgrCache[sg.paramStr].Foreground = LastColor(sg.codes, ForegroundCodes)
        /\ sgrCache[sg.paramStr].Background = LastColor(sg.codes, BackgroundCodes)

\* A bright foreground and then a background were parsed and applied.
C16_Witness ==
    /\ Parsed
    /\ sg.codes = <<97, 40>>
    /\ sgrCache[sg.paramStr].Foreground = PaletteColor(15)
    /\ sgrCache[sg.paramStr].Background = PaletteColor(0)
    /\ sg.out.fg = PaletteColor(15)
    /\ sg.out.bg = PaletteColor(0)

\* ---------------------------------------------------------------------
\* prepareDraw: header rows, sticky section-header rows, the goto shift
\* and the section numbers of the lines of one frame.  A frame is laid out
\* for a document of MaxDocLines lines; a line is its display width and
\* whether the section delimiter matches it.
\* ---------------------------------------------------------------------

MaxDocLines == 5

\* The screen of the frame: m.width columns and root.scr.vHeight rows.
width == 2

vHeight == 3

LineNumbers == 0 .. (MaxDocLines - 1)

\* Display widths of a line: it fills one row exactly, or it wraps once.
LineWidths == {width, width + 1}

MaxWide == 1

MaxMatches == 2

\* The documents: at most MaxWide wrapping lines, at most MaxMatches lines
\* matching the section delimiter.
Documents ==
    { d \in [LineNumbers -> [w : LineWidths, match : BOOLEAN]] :
        /\ Cardinality({ln \in LineNumbers : d[ln].w > width}) <= MaxWide
        /\ Cardinality({ln \in LineNumbers : d[ln].match}) <= MaxMatches }

\* One row more than the full rows: a line that fills its last row exactly
\* gets an empty row.
wrappedHeightExtraRow(w) == (w \div width) + 1

\* ceil(w / width): the rows a line of display width w takes when wrapped.
wrappedHeight(w) == (w + width - 1) \div width

\* The rows line ln takes on the screen of r.
lineHeight(r, ln) == IF r.WrapMode THEN wrappedHeight(r.doc[ln].w) ELSE 1

RECURSIVE sumHeights(_, _, _)
\* The rows of the num lines of r starting at line ln.
sumHeights(r, ln, num) ==
    IF num = 0 THEN 0 ELSE lineHeight(r, ln) + sumHeights(r, ln + 1, num - 1)

\* The first line that is not header: m.SkipLines + m.Header.
firstLine(r) == r.SkipLines + r.Header

\* Step 1: the header is the Header lines from SkipLines on.
headerHeight(r) == sumHeights(r, r.SkipLines, r.Header)

\* The lines that start a section: the delimiter matches, moved by
\* SectionStartPosition.
sectionStarts(r) ==
    { ln \in LineNumbers :
        /\ ln - r.SectionStartPosition \in LineNumbers
        /\ r.doc[ln - r.SectionStartPosition].match }

\* The section starts at or before line ln.
startsUpTo(r, ln) == { s \in sectionStarts(r) : s <= ln }

Greatest(S) == CHOOSE x \in S : \A y \in S : y <= x

\* The line of the sticky section header: the last section start at or
\* before the top line, 0 when there is none.
sectionHeaderLN(r) ==
    IF startsUpTo(r, r.topLN) = {} THEN 0 ELSE Greatest(startsUpTo(r, r.topLN))

\* The section-header rows taken from sectionHeaderLN on even when the
\* delimiter matches no line.
sectionHeaderHeightUnmatched(r) ==
    IF ~r.SectionHeader THEN 0
    ELSE sumHeights(r, sectionHeaderLN(r), r.SectionHeaderNum)

\* Step 2: without section header, or when the delimiter matches no line,
\* there are no section-header rows; else they are the SectionHeaderNum lines
\* from sectionHeaderLN on.
sectionHeaderHeight(r) ==
    IF ~r.SectionHeader \/ sectionStarts(r) = {} THEN 0
    ELSE sumHeights(r, sectionHeaderLN(r), r.SectionHeaderNum)

\* The document line shown at the top of the body: topLN counts from the
\* first line after the header.
bodyLN(r, topLN) == firstLine(r) + topLN

\* Moving up by lines instead of rows: every line counted as one row.
moveYUpByLines(r, topLN, topLX, moveY) ==
    <<IF topLN > moveY THEN topLN - moveY ELSE 0, 0>>

RECURSIVE moveYUp(_, _, _, _)
\* The position <<topLN, topLX>> that is moveY rows above <<topLN, topLX>>:
\* one row at a time, a wrapped line counting for each of its rows; it stops
\* at the first body line.
moveYUp(r, topLN, topLX, moveY) ==
    IF moveY = 0 THEN <<topLN, topLX>>
    ELSE IF topLX > 0 THEN moveYUp(r, topLN, topLX - width, moveY - 1)
    ELSE IF topLN = 0 THEN <<0, 0>>
    ELSE moveYUp(r, topLN - 1,
                 (lineHeight(r, bodyLN(r, topLN - 1)) - 1) * width, moveY - 1)

\* The section-header rows that would cover the jump target.
hiddenRows(r) ==
    IF sectionHeaderHeight(r) > r.jumpTargetHeight
    THEN sectionHeaderHeight(r) - r.jumpTargetHeight
    ELSE 0

\* Step 3: after a jump the body is moved up by the rows the section header
\* would hide.
shiftBody(r) ==
    IF r.showGotoF /\ r.SectionHeader
    THEN moveYUp(r, r.topLN, r.topLX, hiddenRows(r))
    ELSE <<r.topLN, r.topLX>>

\* Step 4: the lines of the frame are the header lines, the section-header
\* lines and the vHeight lines of the body from the top line on.
headerLNs(r) == r.SkipLines .. (firstLine(r) - 1)

sectionHeaderLNs(r) ==
    IF sectionHeaderHeight(r) = 0 THEN {}
    ELSE sectionHeaderLN(r) .. (sectionHeaderLN(r) + r.SectionHeaderNum - 1)

bodyLNs(r, topLN) ==
    { ln \in LineNumbers : bodyLN(r, topLN) <= ln /\ ln < bodyLN(r, topLN) + vHeight }

frameLNs(r, topLN) == headerLNs(r) \cup sectionHeaderLNs(r) \cup bodyLNs(r, topLN)

RECURSIVE sectionNumByLine(_, _, _, _, _)
\* Numbering by line distance: the lines of the document that are not in
\* the frame are counted as well.
sectionNumByLine(r, LNs, ln, section, sectionNm) ==
    IF ln >= MaxDocLines THEN << >>
    ELSE IF ln \in sectionStarts(r)
         THEN (IF ln \in LNs
               THEN <<[LN |-> ln, section |-> section + 1, sectionNm |-> 1]>>
               ELSE << >>)
              \o sectionNumByLine(r, LNs, ln + 1, section + 1, 1)
         ELSE (IF ln \in LNs
               THEN <<[LN |-> ln, section |-> section, sectionNm |-> sectionNm + 1]>>
               ELSE << >>)
              \o sectionNumByLine(r, LNs, ln + 1, section, sectionNm + 1)

RECURSIVE sectionNum(_, _, _, _, _)
\* Steps 4.D and 5: walks the lines LNs of the frame from line ln on in line
\* order with the running counters: a section start opens the next section
\* as its line 1, any other line is the next line of the current section.
sectionNum(r, LNs, ln, section, sectionNm) ==
    IF ln >= MaxDocLines THEN << >>
    ELSE IF ln \notin LNs THEN sectionNum(r, LNs, ln + 1, section, sectionNm)
    ELSE IF ln \in sectionStarts(r)
         THEN <<[LN |-> ln, section |-> section + 1, sectionNm |-> 1]>>
              \o sectionNum(r, LNs, ln + 1, section + 1, 1)
         ELSE <<[LN |-> ln, section |-> section, sectionNm |-> sectionNm + 1]>>
              \o sectionNum(r, LNs, ln + 1, section, sectionNm + 1)

\* The frame with the body at top = <<topLN, topLX>>.
drawAt(r, top) ==
    [r EXCEPT !.pc = "drawn",
              !.headerHeight = headerHeight(r),
              !.sectionHeaderHeight = sectionHeaderHeight(r),
              !.sectionHeaderLN = sectionHeaderLN(r),
              !.topLN = top[1],
              !.topLX = top[2],
              !.showGotoF = FALSE,
              !.lines = sectionNum(r, frameLNs(r, top[1]), 0, 0, 0)]

prepareDraw(r) == drawAt(r, shiftBody(r))

HeaderNums == {0, 1}

SkipNums == {0, 1}

SectionHeaderNums == {1, 2}

JumpTargetHeights == {0, 2}

SectionStartPositions == {-1, 0, 1}

\* A Root before its first frame: the options of the document as the tests
\* set them, the top line inside the document, every section start with its
\* SectionHeaderNum lines inside the document.  Without wrapping the width
\* of a line is not looked at, and the lines all have the width of the screen.
Roots ==
    { r \in [pc : {"ready"}, doc : Documents, WrapMode : BOOLEAN,
             SkipLines : SkipNums, Header : HeaderNums,
             SectionHeader : BOOLEAN, SectionHeaderNum : SectionHeaderNums,
             SectionStartPosition : SectionStartPositions,
             showGotoF : BOOLEAN, topLN : LineNumbers, topLX : {0},
             jumpTargetHeight : JumpTargetHeights,
             headerHeight : {0}, sectionHeaderHeight : {0},
             sectionHeaderLN : {0}, lines : {<< >>}, requested : LineNumbers] :
        /\ r.requested = r.topLN
        /\ r.WrapMode \/ \A ln \in LineNumbers : r.doc[ln].w = width
        /\ bodyLN(r, r.topLN) \in LineNumbers
        /\ \A ln \in LineNumbers :
              r.doc[ln].match =>
                  /\ ln + r.SectionStartPosition >= 0
                  /\ ln + r.SectionStartPosition + r.SectionHeaderNum <= MaxDocLines }

InitDraw ==
    /\ InitInterpreter
    /\ sgrCache = << >>
    /\ InitSgr
    /\ InitCol
    /\ InitProcs
    /\ InitRest
    /\ root \in Roots

PrepareDraw ==
    /\ root.pc = "ready"
    /\ root' = prepareDraw(root)
    /\ UNCHANGED <<es, st, last, trk, n, sgrCache, sg, col, procs,
                   colEnd, input, opts, biomap>>

NextDraw == PrepareDraw

SpecDraw == InitDraw /\ [][NextDraw]_vars

Drawn == root.pc = "drawn"

\* The screen rows of the body above the position <<topLN, topLX>>.
rowsAbove(r, topLN, topLX) ==
    sumHeights(r, firstLine(r), topLN) + (topLX \div width)

Min(a, b) == IF a < b THEN a ELSE b

\* The rows the sticky section header of the frame r1 has in excess of the
\* jumpTargetHeight of the request r.
ExcessRows(r, r1) ==
    IF r1.sectionHeaderHeight > r.jumpTargetHeight
    THEN r1.sectionHeaderHeight - r.jumpTargetHeight
    ELSE 0

\* C18: prepareDraw with showGotoF set and the section header enabled moves
\* the top of the body up by the screen rows the sticky section header has
\* in excess of jumpTargetHeight, as far as there are rows above it; topLN
\* then is neither below 0 nor above the requested topLN; with showGotoF
\* unset, with the section header disabled, or with jumpTargetHeight at
\* least sectionHeaderHeight, topLN is left unchanged.
C18_GotoClamp ==
    [][(root.pc = "ready" /\ root'.pc = "drawn") =>
          /\ root'.topLN >= 0
          /\ root'.topLN <= root.topLN
          /\ (root.showGotoF /\ root.SectionHeader) =>
                rowsAbove(root, root.topLN, root.topLX)
                    - rowsAbove(root, root'.topLN, root'.topLX)
                = Min(ExcessRows(root, root'),
                      rowsAbove(root, root.topLN, root.topLX))
          /\ (\/ ~root.showGotoF
              \/ ~root.SectionHeader
              \/ root.jumpTargetHeight >= root'.sectionHeaderHeight) =>
                (root'.topLN = root.topLN /\ root'.topLX = root.topLX)]_vars

\* A jump to line 3 under a section header of 3 rows: the lines 2 and 1
\* above it take 3 rows, so the body starts at line 1.
C18_Witness ==
    /\ Drawn
    /\ root.WrapMode
    /\ root.SectionHeader
    /\ root.requested = 3
    /\ root.jumpTargetHeight = 0
    /\ root.sectionHeaderHeight = 3
    /\ root.topLN = 1
    /\ root.topLX = 0

\* The rows up to row i of the frame that start a section.
StartRows(i) ==
    { j \in 1 .. i : root.lines[j].LN \in sectionStarts(root) }

\* C19: in the rows of a frame, taken in line order, section is the number
\* of section starts (delimiter matches moved by SectionStartPosition) up
\* to the row, so 0 before the first and one more at each; sectionNm is 1 on
\* a row that starts a section and one more on each following row up to the
\* next start; the rows before the first start are numbered (0, n), n
\* counting from 1.
C19_SectionNumbering ==
    Drawn =>
        /\ bodyLN(root, root.topLN) \in { root.lines[i].LN : i \in 1 .. Len(root.lines) }
        /\ \A i \in 1 .. Len(root.lines) :
              /\ i > 1 => root.lines[i - 1].LN < root.lines[i].LN
              /\ root.lines[i].section = Cardinality(StartRows(i))
              /\ root.lines[i].sectionNm =
                     IF StartRows(i) = {} THEN i ELSE i - Greatest(StartRows(i)) + 1

\* A frame of a header line that starts section 1, and a body that begins two
\* lines further down and runs into section 2.
C19_Witness ==
    /\ Drawn
    /\ Len(root.lines) >= 3
    /\ root.lines[1] = [LN |-> 0, section |-> 1, sectionNm |-> 1]
    /\ root.lines[2] = [LN |-> 3, section |-> 1, sectionNm |-> 2]
    /\ root.lines[3] = [LN |-> 4, section |-> 2, sectionNm |-> 1]

\* The least number of rows of width columns that hold w columns.
CeilOfWidth(w) == CHOOSE h \in 0 .. w : h * width >= w /\ (h - 1) * width < w

RECURSIVE WrappedRows(_, _)
\* The sum of ceil(lineWidth / width) over the num lines from line ln on.
WrappedRows(ln, num) ==
    IF num = 0 THEN 0
    ELSE CeilOfWidth(root.doc[ln].w) + WrappedRows(ln + 1, num - 1)

HeaderRows ==
    IF root.WrapMode THEN WrappedRows(root.SkipLines, root.Header) ELSE root.Header

SectionHeaderRows ==
    IF root.WrapMode THEN WrappedRows(root.sectionHeaderLN, root.SectionHeaderNum)
    ELSE root.SectionHeaderNum

\* The section header is shown: it is enabled and the delimiter starts a
\* section at or before the requested top line.
SectionHeaderShown ==
    root.SectionHeader /\ startsUpTo(root, root.requested) # {}

FrameWithoutSectionHeader == prepareDraw([root EXCEPT !.SectionHeader = FALSE])

\* C21: when the section delimiter matches no line, prepareDraw gives
\* sectionHeaderHeight 0 and section 0 on every row of the frame, and
\* headerHeight and topLN are those of the frame drawn with the section
\* header disabled.
C21_NoMatch ==
    [][(root.pc = "ready" /\ root'.pc = "drawn" /\ sectionStarts(root) = {}) =>
          /\ root'.sectionHeaderHeight = 0
          /\ \A i \in 1 .. Len(root'.lines) : root'.lines[i].section = 0
          /\ root'.headerHeight = FrameWithoutSectionHeader.headerHeight
          /\ root'.topLN = FrameWithoutSectionHeader.topLN
          /\ root'.topLX = FrameWithoutSectionHeader.topLX]_vars

\* A frame asked for at line 2 with the section header enabled, a wrapped
\* header line and a delimiter that matches nothing: it stays at line 2.
C21_Witness ==
    /\ Drawn
    /\ root.SectionHeader
    /\ sectionStarts(root) = {}
    /\ root.WrapMode
    /\ root.headerHeight = 2
    /\ root.sectionHeaderHeight = 0
    /\ root.requested = 2
    /\ root.topLN = 2
    /\ Len(root.lines) > 1

\* C22 (as claimed): the entries of root.scr.lines are keyed by a contiguous
\* range [0, K) with K at most vHeight, K = vHeight when the document has
\* lines enough, and the first headerHeight of them are the header.
C22_RowsContiguous ==
    Drawn =>
        /\ Len(root.lines) <= vHeight
        /\ \A i \in 1 .. Len(root.lines) : root.lines[i].LN = i - 1
        /\ MaxDocLines >= vHeight => Len(root.lines) = vHeight
        /\ \A i \in 1 .. Len(root.lines) :
              i <= root.headerHeight => root.lines[i].LN \in headerLNs(root)

SP == 32

CH == 97

MaxCells == 5

\* The line of len cells whose cells at spaces are blank.
Cells(len, spaces) == [i \in 1 .. len |-> IF (i - 1) \in spaces THEN SP ELSE CH]

isSpace(lc, i) == lc[i + 1] = SP

\* The blank cells of lc strictly between the cells from and to.
spacesBetween(lc, from, to) ==
    { i \in 0 .. (Len(lc) - 1) : from < i /\ i < to /\ isSpace(lc, i) }

Least(S) == CHOOSE x \in S : \A y \in S : x <= y

\* The blank nearest to the boundary p: the last one of the column, which
\* begins after the cell start; else the first one to the right; else the
\* end of the line.
nearestSpace(lc, start, p) ==
    IF spacesBetween(lc, start, p) # {} THEN Greatest(spacesBetween(lc, start, p))
    ELSE IF spacesBetween(lc, p, Len(lc)) # {} THEN Least(spacesBetween(lc, p, Len(lc)))
    ELSE Len(lc)

\* The nearest blank, the column taken to begin at the nominal boundary of
\* the column before.
nearestSpaceNominal(lc, pos, num) ==
    nearestSpace(lc, IF num = 0 THEN -1 ELSE pos[num], pos[num + 1])

RECURSIVE findColumnEnd(_, _, _)
\* The blank nearest to the boundary of column num, the column beginning where
\* the column before it ends.
overflowEnd(lc, pos, num) ==
    nearestSpace(lc, IF num = 0 THEN -1 ELSE findColumnEnd(lc, pos, num - 1), pos[num + 1])

findColumnEnd(lc, pos, num) ==
    IF num >= Len(pos) THEN Len(lc)
    ELSE IF pos[num + 1] >= Len(lc) THEN Len(lc)
    ELSE IF isSpace(lc, pos[num + 1]) THEN pos[num + 1]
    ELSE overflowEnd(lc, pos, num)

\* The calls of Test_findColumnEnd and the ends it expects.
TestVectors ==
    {
      [lc |-> Cells(24, {}), pos |-> <<7, 15>>, n |-> 0, want |-> 24],
      [lc |-> Cells(23, {7, 15}), pos |-> <<7, 15>>, n |-> 0, want |-> 7],
      [lc |-> Cells(17, {1, 2, 3, 4, 5, 6, 7, 9, 10, 11, 12, 13, 14, 15}), pos |-> <<7, 15>>, n |-> 0, want |-> 7],
      [lc |-> Cells(23, {0, 1, 2, 3, 4, 6, 7, 8, 9, 10, 11, 12, 14, 15, 16, 17, 18, 19, 20, 21}), pos |-> <<7, 15>>, n |-> 0, want |-> 7],
      [lc |-> Cells(28, {3, 4, 5, 15}), pos |-> <<7, 15>>, n |-> 0, want |-> 5],
      [lc |-> Cells(28, {3, 4, 5, 15}), pos |-> <<7, 15>>, n |-> 1, want |-> 15],
      [lc |-> Cells(24, {9, 16}), pos |-> <<7, 15>>, n |-> 0, want |-> 9],
      [lc |-> Cells(25, {9, 17}), pos |-> <<7, 15>>, n |-> 1, want |-> 17],
      [lc |-> Cells(25, {9, 17}), pos |-> <<7, 15>>, n |-> 0, want |-> 9],
      [lc |-> Cells(32, {10, 21}), pos |-> <<7, 15>>, n |-> 1, want |-> 21],
      [lc |-> Cells(31, {7}), pos |-> <<7, 15>>, n |-> 1, want |-> 31]
    }

\* Every line of up to MaxCells cells.
AllCells == UNION { [1 .. len -> {SP, CH}] : len \in 0 .. MaxCells }

\* The ordered lists of up to two boundaries.
Boundaries ==
    { <<p>> : p \in 1 .. MaxCells }
        \cup { <<p, q>> : p \in 1 .. MaxCells, q \in 2 .. (MaxCells + 1) }

NoWant == -1

InitColumn ==
    /\ InitInterpreter
    /\ sgrCache = << >>
    /\ InitSgr
    /\ InitCol
    /\ InitProcs
    /\ InitRoot
    /\ InitInput
    /\ InitOpts
    /\ InitBiomap
    /\ \/ \E lc \in AllCells, pos \in Boundaries, num \in 0 .. 2 :
             /\ Len(pos) = 2 => pos[1] < pos[2]
             /\ colEnd = [pc |-> "call", lc |-> lc, pos |-> pos, n |-> num,
                          want |-> NoWant, end |-> 0]
       \/ \E t \in TestVectors :
             colEnd = [pc |-> "call", lc |-> t.lc, pos |-> t.pos, n |-> t.n,
                       want |-> t.want, end |-> 0]

FindColumnEnd ==
    /\ colEnd.pc = "call"
    /\ colEnd' = [colEnd EXCEPT !.pc = "done",
                                !.end = findColumnEnd(colEnd.lc, colEnd.pos, colEnd.n)]
    /\ UNCHANGED <<es, st, last, trk, n, sgrCache, sg, col, procs, root,
                   input, opts, biomap>>

NextColumn == FindColumnEnd

SpecColumn == InitColumn /\ [][NextColumn]_vars

Returned == colEnd.pc = "done"

\* The calls of the test return the ends the test expects.
VectorsAgree == (Returned /\ colEnd.want # NoWant) => colEnd.end = colEnd.want

\* The nominal boundary of the call, when it is a cell of the line.
Boundary == colEnd.pos[colEnd.n + 1]

OnLine == colEnd.n < Len(colEnd.pos) /\ Boundary < Len(colEnd.lc)

\* The cell before which the column of the call begins: the end of the
\* column before it.
ColumnStart ==
    IF colEnd.n = 0 THEN -1
    ELSE findColumnEnd(colEnd.lc, colEnd.pos, colEnd.n - 1)

BlankAt(i) == i \in 0 .. (Len(colEnd.lc) - 1) /\ colEnd.lc[i + 1] = SP

NoBlankIn(from, to) == \A i \in (from + 1) .. (to - 1) : ~BlankAt(i)

\* C24: findColumnEnd returns at most len(lc); on a blank boundary cell it
\* returns the boundary; on any other it returns the blank nearest to the
\* left inside the column, else the next blank to the right, else len(lc);
\* it does not pass the next boundary when that one is on a blank.
C24_FindColumnEnd ==
    Returned =>
        /\ colEnd.end <= Len(colEnd.lc)
        /\ (OnLine /\ BlankAt(Boundary)) => colEnd.end = Boundary
        /\ (OnLine /\ ~BlankAt(Boundary)) =>
              \/ /\ ColumnStart < colEnd.end /\ colEnd.end < Boundary
                 /\ BlankAt(colEnd.end)
                 /\ NoBlankIn(colEnd.end, Boundary)
              \/ /\ NoBlankIn(ColumnStart, Boundary)
                 /\ Boundary < colEnd.end
                 /\ BlankAt(colEnd.end)
                 /\ NoBlankIn(Boundary, colEnd.end)
              \/ /\ NoBlankIn(ColumnStart, Len(colEnd.lc))
                 /\ colEnd.end = Len(colEnd.lc)
        /\ (/\ OnLine
            /\ colEnd.n + 1 < Len(colEnd.pos)
            /\ BlankAt(colEnd.pos[colEnd.n + 2])) =>
              colEnd.end <= colEnd.pos[colEnd.n + 2]

\* The call of the test on "abedefghi jkujikl mnoopqr" for column 1: the
\* blank at 9 ends column 0, so the end is the blank at 17.
C24_Witness ==
    /\ Returned
    /\ colEnd.lc = Cells(25, {9, 17})
    /\ colEnd.pos = <<7, 15>>
    /\ colEnd.n = 1
    /\ colEnd.end = 17

\* ---------------------------------------------------------------------
\* Input: the input line of the prompt.  value is a list of runes, cursorX
\* the cursor in display columns.
\* ---------------------------------------------------------------------

\* Runes of the input: a tab, a letter, a combining accent (no width), a
\* wide letter, and the zero rune of memory never written.
TabRune == 9

LetterRune == 97

AccentRune == 769

WideRune == 12354

NulRune == 0

\* runewidth.RuneWidth: control and combining runes take no column, wide
\* runes two.
RuneWidth(r) ==
    IF r \in {TabRune, AccentRune, NulRune} THEN 0
    ELSE IF r = WideRune THEN 2
    ELSE 1

\* The columns one rune adds in stringWidth and countToCursor.
widthOf(r) == RuneWidth(r) + (IF r = TabRune THEN 2 ELSE 0)

RECURSIVE stringWidthFrom(_, _)
stringWidthFrom(str, i) ==
    IF i > Len(str) THEN 0 ELSE widthOf(str[i]) + stringWidthFrom(str, i + 1)

stringWidth(str) == stringWidthFrom(str, 1)

RECURSIVE countToCursorFrom(_, _, _, _)
\* The loop of countToCursor before the rune of index i, width columns
\* counted so far.
countToCursorFrom(str, cursor, i, w) ==
    IF i >= Len(str) THEN i
    ELSE IF w + widthOf(str[i + 1]) >= cursor THEN i
    ELSE countToCursorFrom(str, cursor, i + 1, w + widthOf(str[i + 1]))

countToCursor(str, cursor) == countToCursorFrom(str, cursor, 0, 0)

\* runes[low:high], for bounds inside the slice.
Slice(runes, low, high) == SubSeq(runes, low + 1, high)

RECURSIVE skipZeroWidth(_, _)
\* The loop of Backspace and Delete: the first index from next on that is
\* the end of runes or a rune with a width.
skipZeroWidth(runes, next) ==
    IF next < Len(runes) /\ RuneWidth(runes[next + 1]) = 0
    THEN skipZeroWidth(runes, next + 1)
    ELSE next

\* What keyEvent leaves behind: the fields of Input it writes, its return
\* value ok, and whether it stopped on a slice out of range.
Outcome(value, cursorX, Event, ok, panicked) ==
    [value |-> value, cursorX |-> cursorX, Event |-> Event, ok |-> ok,
     panicked |-> panicked]

\* case tcell.KeyBackspace.  runes[next:] is out of range when next is past
\* the end of runes; value and cursorX are already written by then.
backspaceAt(inp, pos, next) ==
    IF next > Len(inp.value)
    THEN Outcome(Slice(inp.value, 0, pos), stringWidth(Slice(inp.value, 0, pos)),
                 inp.Event, FALSE, TRUE)
    ELSE Outcome(Slice(inp.value, 0, pos) \o Slice(inp.value, next, Len(inp.value)),
                 stringWidth(Slice(inp.value, 0, pos)), inp.Event, FALSE, FALSE)

keyBackspace(inp) ==
    IF inp.cursorX <= 0
    THEN Outcome(inp.value, inp.cursorX, inp.Event, FALSE, FALSE)
    ELSE backspaceAt(inp, countToCursor(inp.value, inp.cursorX),
                     skipZeroWidth(inp.value,
                                   countToCursor(inp.value, inp.cursorX) + 1))

\* case tcell.KeyDelete.  runes[:pos+dp] one past the end of runes is in
\* range only when the slice has spare capacity, which the conversion
\* []rune(value) may or may not leave; the rune it then takes in is the
\* zero rune.
deleteAt(inp, pos, dp, next, spare) ==
    IF pos + dp > Len(inp.value) /\ ~spare
    THEN Outcome(inp.value, inp.cursorX, inp.Event, FALSE, TRUE)
    ELSE Outcome((IF pos + dp > Len(inp.value)
                  THEN inp.value \o <<NulRune>>
                  ELSE Slice(inp.value, 0, pos + dp))
                 \o (IF Len(inp.value) > next
                     THEN Slice(inp.value, dp + next, Len(inp.value))
                     ELSE << >>),
                 inp.cursorX, inp.Event, FALSE, FALSE)

keyDelete(inp, spare) ==
    deleteAt(inp, countToCursor(inp.value, inp.cursorX),
             IF inp.cursorX = 0 THEN 0 ELSE 1,
             skipZeroWidth(inp.value, countToCursor(inp.value, inp.cursorX) + 1),
             spare)

\* case tcell.KeyLeft.
leftAt(inp, pos) ==
    Outcome(inp.value,
            stringWidth(Slice(inp.value, 0, pos))
              - (IF pos > 0 /\ inp.value[pos] = TabRune THEN 1 ELSE 0),
            inp.Event, FALSE, FALSE)

keyLeft(inp) ==
    IF inp.cursorX <= 0
    THEN Outcome(inp.value, inp.cursorX, inp.Event, FALSE, FALSE)
    ELSE leftAt(inp, countToCursor(inp.value, inp.cursorX))

\* case tcell.KeyRight.
rightAt(inp, pos) ==
    Outcome(inp.value,
            IF Len(inp.value) > pos
            THEN stringWidth(Slice(inp.value, 0, pos + 1))
            ELSE inp.cursorX,
            inp.Event, FALSE, FALSE)

keyRight(inp) == rightAt(inp, countToCursor(inp.value, inp.cursorX + 1))

\* case tcell.KeyTAB and case tcell.KeyRune: the rune goes in at pos and the
\* cursor moves by step.
insertAt(inp, pos, r, step) ==
    Outcome(Slice(inp.value, 0, pos) \o <<r>>
              \o Slice(inp.value, pos, Len(inp.value)),
            inp.cursorX + step, inp.Event, FALSE, FALSE)

keyTAB(inp) ==
    insertAt(inp, countToCursor(inp.value, inp.cursorX + 1), TabRune, 2)

\* The rune goes in before the character the cursor is after.
keyRuneBeforeCursor(inp, r) ==
    insertAt(inp, countToCursor(inp.value, inp.cursorX), r, RuneWidth(r))

keyRune(inp, r) ==
    insertAt(inp, countToCursor(inp.value, inp.cursorX + 1), r, RuneWidth(r))

\* case tcell.KeyEscape: value and the mode are written, cursorX is not.
keyEscapeConfirms(inp) == Outcome(<< >>, inp.cursorX, "Normal", TRUE, FALSE)

keyEscape(inp) == Outcome(<< >>, inp.cursorX, "Normal", FALSE, FALSE)

\* Input.keyEvent.  evKey is [Key, Rune]; Key "nil" is the nil event, "Up" a
\* key the switch has no case for.
keyEvent(inp, evKey, spare) ==
    CASE evKey.Key = "nil" -> Outcome(inp.value, inp.cursorX, inp.Event, FALSE, FALSE)
      [] evKey.Key = "Escape" -> keyEscape(inp)
      [] evKey.Key = "Enter" -> Outcome(inp.value, inp.cursorX, inp.Event, TRUE, FALSE)
      [] evKey.Key = "Backspace" -> keyBackspace(inp)
      [] evKey.Key = "Delete" -> keyDelete(inp, spare)
      [] evKey.Key = "Left" -> keyLeft(inp)
      [] evKey.Key = "Right" -> keyRight(inp)
      [] evKey.Key = "TAB" -> keyTAB(inp)
      [] evKey.Key = "Rune" -> keyRune(inp, evKey.Rune)
      [] OTHER -> Outcome(inp.value, inp.cursorX, inp.Event, FALSE, FALSE)

\* The keys of the model.
TypedRunes == {LetterRune, AccentRune, WideRune}

KeyNames == {"nil", "Escape", "Enter", "Backspace", "Delete", "Left", "Right",
             "TAB", "Up"}

Keys ==
    [Key : KeyNames, Rune : {NulRune}] \cup [Key : {"Rune"}, Rune : TypedRunes]

\* Whether []rune(value) has capacity beyond its length; only Delete slices
\* past the length.
Spares(evKey) == IF evKey.Key = "Delete" THEN BOOLEAN ELSE {FALSE}

\* ---------------------------------------------------------------------
\* SpecInput: the methods of Input called in any order.
\* ---------------------------------------------------------------------

MaxValue == 3

MaxCursor == 7

\* Earlier inputs that Up and Down bring back.
History == {<< >>, <<LetterRune>>, <<WideRune, LetterRune>>}

\* NewInput: an empty value, the cursor at 0, the normal mode.
NewInput ==
    [pc |-> "input", value |-> << >>, cursorX |-> 0, Event |-> "Normal",
     ok |-> FALSE, panicked |-> FALSE, key |-> "new", rune |-> NulRune]

InitInputLine ==
    /\ InitInterpreter
    /\ sgrCache = << >>
    /\ InitSgr
    /\ InitCol
    /\ InitProcs
    /\ InitRoot
    /\ InitColEnd
    /\ InitOpts
    /\ InitBiomap
    /\ input = NewInput

\* The input after keyEvent has left the outcome o of the key evKey.
After(o, evKey) ==
    [pc |-> "input", value |-> o.value, cursorX |-> o.cursorX,
     Event |-> o.Event, ok |-> o.ok, panicked |-> o.panicked,
     key |-> evKey.Key, rune |-> evKey.Rune]

InBounds(o) == Len(o.value) <= MaxValue /\ o.cursorX <= MaxCursor

OthersUnchanged ==
    UNCHANGED <<es, st, last, trk, n, sgrCache, sg, col, procs, root, colEnd,
                opts, biomap>>

\* One call of Input.keyEvent.
KeyEvent ==
    /\ input.pc = "input"
    /\ ~input.panicked
    /\ \E evKey \in Keys : \E spare \in Spares(evKey) :
          /\ InBounds(keyEvent(input, evKey, spare))
          /\ input' = After(keyEvent(input, evKey, spare), evKey)
    /\ OthersUnchanged

\* Input.reset.
Reset ==
    /\ input.pc = "input"
    /\ ~input.panicked
    /\ input' = [input EXCEPT !.value = << >>, !.cursorX = 0, !.key = "reset",
                              !.rune = NulRune]
    /\ OthersUnchanged

\* Input.previous and Input.next: the value the mode's Up or Down returns,
\* the cursor at its end.
PreviousNext ==
    /\ input.pc = "input"
    /\ ~input.panicked
    /\ \E str \in History, name \in {"previous", "next"} :
          input' = [input EXCEPT !.value = str, !.cursorX = stringWidth(str),
                                 !.key = name, !.rune = NulRune]
    /\ OthersUnchanged

NextInput == KeyEvent \/ Reset \/ PreviousNext

SpecInput == InitInputLine /\ [][NextInput]_vars

\* The display columns at which a prefix of str ends.
PrefixWidths(str) == {stringWidth(Slice(str, 0, i)) : i \in 0 .. Len(str)}

\* C29: after any sequence of keys handled by keyEvent, with reset, previous
\* and next, the cursor is inside the value, 0 <= cursorX <=
\* stringWidth(value), and on the column where some prefix of the value
\* ends, never inside a wide rune or a tab.
C29_CursorOnBoundary ==
    (input.pc = "input" /\ ~input.panicked) =>
        /\ 0 <= input.cursorX
        /\ input.cursorX <= stringWidth(input.value)
        /\ input.cursorX \in PrefixWidths(input.value)

\* C30: keyEvent never stops on a slice out of range, whatever key it is
\* given and whatever the cursor, Backspace and Delete after Escape
\* included.
C30_NeverPanics == input.pc = "input" => ~input.panicked

\* The runes before the cursor: the longest prefix of str that ends at or
\* before the column cursor, the accents of its last character included.
CursorIndex(str, cursor) ==
    Greatest({i \in 0 .. Len(str) : stringWidth(Slice(str, 0, i)) <= cursor})

\* The index of the rune the character with the rune of index i starts at:
\* the last rune up to i that is no accent, or the first rune.
CharStart(str, i) ==
    Greatest({1} \cup {j \in 1 .. i : str[j] # AccentRune})

\* The index of the last accent attached to the rune of index i.
CharEnd(str, i) ==
    Greatest({j \in i .. Len(str) :
                \A k \in (i + 1) .. j : str[k] = AccentRune})

\* str without the runes of index from..to.
Without(str, from, to) == SubSeq(str, 1, from - 1) \o SubSeq(str, to + 1, Len(str))

\* The cursor is at the end of a prefix of a value that came from keys and
\* in which every accent is attached to a character.
OnBoundary ==
    /\ input.pc = "input"
    /\ ~input.panicked
    /\ input.cursorX \in PrefixWidths(input.value)
    /\ \A i \in 1 .. Len(input.value) : input.value[i] # NulRune
    /\ input.value = << >> \/ input.value[1] # AccentRune

\* C31: Backspace with the cursor after a character removes that character
\* with the accents attached to it and nothing else, a tab after it stays,
\* and the cursor is at the width of the text before the character; with
\* the cursor at 0 nothing changes.
C31_Backspace ==
    [][(OnBoundary /\ input'.key = "Backspace" /\ ~input'.panicked) =>
          IF input.cursorX = 0
          THEN input'.value = input.value /\ input'.cursorX = 0
          ELSE /\ input'.value =
                    Without(input.value,
                            CharStart(input.value,
                                      CursorIndex(input.value, input.cursorX)),
                            CursorIndex(input.value, input.cursorX))
               /\ input'.cursorX =
                    stringWidth(SubSeq(input.value, 1,
                        CharStart(input.value,
                                  CursorIndex(input.value, input.cursorX)) - 1))]_vars

\* The values Delete may leave when it removes the character after the
\* cursor: the value without its rune, or without its rune and the accents
\* attached to it.
OneCharDeleted(str, cursor) ==
    {Without(str, CursorIndex(str, cursor) + 1, j) :
        j \in (CursorIndex(str, cursor) + 1)
                .. CharEnd(str, CursorIndex(str, cursor) + 1)}

\* The value has no accents.
NoAccents == \A i \in 1 .. Len(input.value) : input.value[i] # AccentRune

\* C32: Delete removes the one character at the cursor and no other rune,
\* also when that character is a tab or a tab follows it, and leaves the
\* cursor where it is; with the cursor at the end of the value nothing
\* changes.  Stated for values of letters, wide letters and tabs.
C32_Delete ==
    [][(OnBoundary /\ NoAccents /\ input'.key = "Delete" /\ ~input'.panicked) =>
          /\ input'.cursorX = input.cursorX
          /\ IF CursorIndex(input.value, input.cursorX) = Len(input.value)
             THEN input'.value = input.value
             ELSE input'.value \in OneCharDeleted(input.value, input.cursorX)]_vars

\* str with the rune r put in after its first i runes.
WithRune(str, i, r) == SubSeq(str, 1, i) \o <<r>> \o SubSeq(str, i + 1, Len(str))

\* C38: a rune key puts exactly its rune into the value at the cursor, the
\* runes before and after the cursor staying as they are and in order, and
\* moves the cursor on by the width of the rune; the Tab key puts in one tab
\* and moves the cursor on by 2.
C38_Insert ==
    [][(input.pc = "input" /\ ~input.panicked
          /\ input'.key \in {"Rune", "TAB"}) =>
          /\ ~input'.panicked
          /\ input'.key = "Rune" =>
                /\ input'.value =
                     WithRune(input.value,
                              CursorIndex(input.value, input.cursorX),
                              input'.rune)
                /\ input'.cursorX = input.cursorX + RuneWidth(input'.rune)
          /\ input'.key = "TAB" =>
                /\ input'.value =
                     WithRune(input.value,
                              CursorIndex(input.value, input.cursorX),
                              TabRune)
                /\ input'.cursorX = input.cursorX + 2]_vars

\* A wide letter was typed between two letters.
C38_Witness ==
    /\ input.pc = "input"
    /\ input.key = "Rune"
    /\ input.rune = WideRune
    /\ input.value = <<LetterRune, WideRune, LetterRune>>
    /\ input.cursorX = 3

\* ---------------------------------------------------------------------
\* SpecSearch: the search prompt.  Root.inputEvent handles the keys while
\* the prompt is open, the incremental search runs beside it.
\* ---------------------------------------------------------------------

MaxTop == 1

TopLNs == 0 .. MaxTop

\* The prompt closed: a new Input, no search running, the view at topLN.
\* startLN remembers topLN at the time the prompt was opened, calls the
\* calls the last handler made in order, confirmed the value of the
\* Confirm event it posted.
InitSearch ==
    /\ InitInterpreter
    /\ sgrCache = << >>
    /\ InitSgr
    /\ InitCol
    /\ InitProcs
    /\ InitRoot
    /\ InitColEnd
    /\ InitOpts
    /\ InitBiomap
    /\ \E top \in TopLNs :
          input = [pc |-> "search", value |-> << >>, cursorX |-> 0,
                   Event |-> "Normal", ok |-> FALSE, panicked |-> FALSE,
                   key |-> "new", handler |-> "new", cancelFunc |-> "nil",
                   searching |-> FALSE, moved |-> FALSE, topLN |-> top,
                   startLN |-> top, calls |-> << >>, confirmed |-> << >>]

\* The search prompt opens: the input is reset and the mode is Search.
SetSearchMode ==
    /\ input.pc = "search"
    /\ input.Event = "Normal"
    /\ input' = [input EXCEPT !.value = << >>, !.cursorX = 0,
                              !.Event = "Search", !.ok = FALSE,
                              !.key = "none", !.handler = "setSearchMode",
                              !.moved = FALSE, !.startLN = input.topLN,
                              !.calls = << >>, !.confirmed = << >>]
    /\ OthersUnchanged

\* incrementalSearch searches for the value of a search prompt: the search
\* in flight is cancelled and a new one started.  With the prompt closed or
\* nothing typed there is no search to make.
incrementalSearch(inp) ==
    IF inp.Event = "Search" /\ inp.value # << >>
    THEN [inp EXCEPT !.searching = TRUE, !.cancelFunc = "set"]
    ELSE inp

\* inputEvent after keyEvent returned false.
notConfirmed(inp, o, name) ==
    incrementalSearch([inp EXCEPT !.value = o.value, !.cursorX = o.cursorX,
                                  !.Event = o.Event, !.ok = FALSE,
                                  !.key = name, !.handler = "inputEvent",
                                  !.calls = <<"incrementalSearch">>,
                                  !.confirmed = << >>])

\* inputEvent after keyEvent returned true: the search in flight is
\* cancelled, the Confirm event of the value is posted, the mode is normal.
confirm(inp, o, name) ==
    [inp EXCEPT !.ok = TRUE, !.key = name, !.handler = "inputEvent",
                !.cancelFunc = "nil",
                !.searching = IF inp.cancelFunc # "nil" THEN FALSE ELSE @,
                !.calls = (IF inp.cancelFunc # "nil" THEN <<"cancelFunc">>
                           ELSE << >>) \o <<"Confirm", "postEvent">>,
                !.confirmed = <<o.value>>, !.Event = "Normal"]

\* Root.inputEvent on the outcome o of keyEvent.
inputEvent(inp, o, name) ==
    IF o.panicked
    THEN [inp EXCEPT !.value = o.value, !.cursorX = o.cursorX,
                     !.panicked = TRUE, !.key = name,
                     !.handler = "inputEvent", !.calls = << >>,
                     !.confirmed = << >>]
    ELSE IF ~o.ok THEN notConfirmed(inp, o, name)
    ELSE confirm(inp, o, name)

\* One key of the prompt.  The key "nil" is a key inputCapture took for an
\* action of the prompt.
InputEvent ==
    /\ input.pc = "search"
    /\ ~input.panicked
    /\ input.Event # "Normal"
    /\ \E evKey \in Keys : \E spare \in Spares(evKey) :
          /\ InBounds(keyEvent(input, evKey, spare))
          /\ input' = inputEvent(input, keyEvent(input, evKey, spare), evKey.Key)
    /\ OthersUnchanged

\* The search in flight finds a line and moves the view to it.
SearchMove ==
    /\ input.pc = "search"
    /\ ~input.panicked
    /\ input.searching
    /\ \E top \in TopLNs \ {input.topLN} :
          input' = [input EXCEPT !.topLN = top, !.searching = FALSE,
                                 !.moved = TRUE, !.handler = "searchMove"]
    /\ OthersUnchanged

NextSearch == SetSearchMode \/ InputEvent \/ SearchMove

SpecSearch == InitSearch /\ [][NextSearch]_vars

Handled == input.pc = "search" /\ input'.handler = "inputEvent" /\ input' # input

\* C25: of the keys inputEvent handles in an input mode, Enter and only
\* Enter posts a Confirm event, with the value of the input; on Enter the
\* search in flight is cancelled (cancelFunc called and set to nil) before
\* the event is posted, and the mode is Normal afterwards; every other key,
\* Escape too, posts nothing and calls incrementalSearch.
C25_ConfirmOnEnter ==
    [][Handled =>
          /\ (\E i \in 1 .. Len(input'.calls) : input'.calls[i] = "postEvent")
                <=> (input'.key = "Enter")
          /\ input'.key = "Enter" =>
                /\ input'.confirmed = <<input.value>>
                /\ input'.calls =
                     (IF input.cancelFunc # "nil" THEN <<"cancelFunc">> ELSE << >>)
                       \o <<"Confirm", "postEvent">>
                /\ input'.cancelFunc = "nil"
                /\ ~input'.searching
                /\ input'.Event = "Normal"
          /\ input'.key # "Enter" =>
                /\ input'.calls = <<"incrementalSearch">>
                /\ input'.confirmed = << >>]_vars

\* Enter confirmed a value while a search was in flight.
C25_Witness ==
    /\ input.pc = "search"
    /\ input.handler = "inputEvent"
    /\ input.key = "Enter"
    /\ input.calls = <<"cancelFunc", "Confirm", "postEvent">>
    /\ input.confirmed = <<input.value>>
    /\ input.value # << >>
    /\ input.cancelFunc = "nil"
    /\ input.Event = "Normal"

NumKeys == 3

NumValues == 2

BiomapKeys == 1 .. NumKeys

BiomapValues == 1 .. NumValues

\* m[k] = v of a Go map.
MapSet(m, k, v) == [x \in DOMAIN m \cup {k} |-> IF x = k THEN v ELSE m[x]]

\* delete(m, k) of a Go map.
MapDelete(m, k) == [x \in DOMAIN m \ {k} |-> m[x]]

\* The argument a call does not have.
NoArg == 0

\* NewMap: both maps empty.  op, key and value are the last call and its
\* arguments.
NewMap ==
    [pc |-> "biomap", Forward |-> << >>, Backward |-> << >>, op |-> "NewMap",
     key |-> NoArg, value |-> NoArg]

InitMap ==
    /\ InitInterpreter
    /\ sgrCache = << >>
    /\ InitSgr
    /\ InitCol
    /\ InitProcs
    /\ InitRoot
    /\ InitColEnd
    /\ InitInput
    /\ InitOpts
    /\ biomap = NewMap

MapOthersUnchanged ==
    UNCHANGED <<es, st, last, trk, n, sgrCache, sg, col, procs, root, colEnd,
                input, opts>>

\* Map.Store: both maps are written, nothing is deleted.
Store ==
    /\ biomap.pc = "biomap"
    /\ \E key \in BiomapKeys, value \in BiomapValues :
          biomap' = [biomap EXCEPT !.Forward = MapSet(@, key, value),
                                   !.Backward = MapSet(@, value, key),
                                   !.op = "Store",
                                   !.key = key, !.value = value]
    /\ MapOthersUnchanged

\* Map.DeleteForward: nothing for a key Forward does not hold.
DeleteForward ==
    /\ biomap.pc = "biomap"
    /\ \E key \in BiomapKeys :
          biomap' =
            IF key \notin DOMAIN biomap.Forward
            THEN [biomap EXCEPT !.op = "DeleteForward",
                                !.key = key, !.value = NoArg]
            ELSE [biomap EXCEPT
                    !.Forward = MapDelete(@, key),
                    !.Backward = MapDelete(@, biomap.Forward[key]),
                    !.op = "DeleteForward",
                    !.key = key, !.value = NoArg]
    /\ MapOthersUnchanged

\* Map.DeleteBackward: nothing for a value Backward does not hold.
DeleteBackward ==
    /\ biomap.pc = "biomap"
    /\ \E value \in BiomapValues :
          biomap' =
            IF value \notin DOMAIN biomap.Backward
            THEN [biomap EXCEPT !.op = "DeleteBackward",
                                !.key = NoArg, !.value = value]
            ELSE [biomap EXCEPT
                    !.Forward = MapDelete(@, biomap.Backward[value]),
                    !.Backward = MapDelete(@, value),
                    !.op = "DeleteBackward",
                    !.key = NoArg, !.value = value]
    /\ MapOthersUnchanged

NextMap == Store \/ DeleteForward \/ DeleteBackward

SpecBiomap == InitMap /\ [][NextMap]_vars

\* C28: after any sequence of Store, DeleteForward and DeleteBackward the
\* two maps are inverse of each other: Forward[k] = v exactly when
\* Backward[v] = k, and neither map holds an entry the other lacks, also
\* after Store has bound a key or a value that was bound before.
C28_Inverse ==
    biomap.pc = "biomap" =>
        /\ \A k \in DOMAIN biomap.Forward :
              /\ biomap.Forward[k] \in DOMAIN biomap.Backward
              /\ biomap.Backward[biomap.Forward[k]] = k
        /\ \A v \in DOMAIN biomap.Backward :
              /\ biomap.Backward[v] \in DOMAIN biomap.Forward
              /\ biomap.Forward[biomap.Backward[v]] = v

\* Map.LoadForward and Map.LoadBackward: the value and ok of the map read.
LoadForward(m, key) ==
    IF key \in DOMAIN m.Forward THEN [value |-> m.Forward[key], ok |-> TRUE]
    ELSE [value |-> NoArg, ok |-> FALSE]

LoadBackward(m, value) ==
    IF value \in DOMAIN m.Backward THEN [key |-> m.Backward[value], ok |-> TRUE]
    ELSE [key |-> NoArg, ok |-> FALSE]

\* The pairs both loads return.
StoredPairs(m) ==
    {pair \in BiomapKeys \X BiomapValues :
        /\ LoadForward(m, pair[1]) = [value |-> pair[2], ok |-> TRUE]
        /\ LoadBackward(m, pair[2]) = [key |-> pair[1], ok |-> TRUE]}

\* Going from map m to map after, the key k and the value v are gone and
\* every other pair both loads returned is still returned by both.
RemovedExactly(m, after, k, v) ==
    /\ ~LoadForward(after, k).ok
    /\ ~LoadBackward(after, v).ok
    /\ \A pair \in StoredPairs(m) :
          pair # <<k, v>> => pair \in StoredPairs(after)

SameMaps(m, after) == after.Forward = m.Forward /\ after.Backward = m.Backward

\* C36: DeleteForward(k) and DeleteBackward(v) remove the pair that holds
\* the key or the value and no other: afterwards neither load finds the key
\* or its paired value, every other stored pair is still returned by both
\* loads, and a key or a value that is not held leaves both maps unchanged.
C36_DeleteExactly ==
    [][/\ (biomap.pc = "biomap" /\ biomap'.op = "DeleteForward") =>
            IF LoadForward(biomap, biomap'.key).ok
            THEN RemovedExactly(biomap, biomap', biomap'.key,
                                LoadForward(biomap, biomap'.key).value)
            ELSE SameMaps(biomap, biomap')
       /\ (biomap.pc = "biomap" /\ biomap'.op = "DeleteBackward") =>
            IF LoadBackward(biomap, biomap'.value).ok
            THEN RemovedExactly(biomap, biomap',
                                LoadBackward(biomap, biomap'.value).key,
                                biomap'.value)
            ELSE SameMaps(biomap, biomap')]_vars

\* ---------------------------------------------------------------------
\* SpecShared: one Map used by the goroutines Procs at once, statement by
\* statement.  m.s is a sync.RWMutex: w is the goroutine that has taken it
\* with Lock (NoOne if none), readers the goroutines that hold it with
\* RLock.  Lock takes the mutex against the other writers and then waits
\* until the readers that hold it have left; an RLock made while a writer
\* has the mutex waits until that writer's Unlock, which lets in all the
\* readers that wait.
\* ---------------------------------------------------------------------

NoOne == 0

\* The keys and values of the calls.
SharedKeys == {1}

SharedValues == {1}

MapOperations ==
    {"Store", "LoadForward", "LoadBackward", "DeleteForward", "DeleteBackward"}

\* Every operation under the read lock.
lockKindRead(op) == "RLock"

\* The first statement of every operation: the lock it takes.
lockKind(op) ==
    IF op \in {"LoadForward", "LoadBackward"} THEN "RLock" ELSE "Lock"

\* The deferred statement of every operation.
unlockKind(op) == IF lockKind(op) = "RLock" THEN "RUnlock" ELSE "Unlock"

\* The statement after the lock.
firstStatement(op) ==
    IF op = "Store" THEN "Forward"
    ELSE IF op \in {"DeleteForward", "DeleteBackward"} THEN "Find"
    ELSE "Read"

\* A goroutine that is in no call.
NoCall ==
    [op |-> "none", pc |-> "idle", key |-> NoArg, value |-> NoArg, ok |-> FALSE]

\* The calls a goroutine can start.
Calls ==
    {[op |-> "Store", pc |-> lockKind("Store"), key |-> k, value |-> v,
      ok |-> FALSE] : k \in SharedKeys, v \in SharedValues}
    \cup {[op |-> o, pc |-> lockKind(o), key |-> k, value |-> NoArg,
           ok |-> FALSE] : o \in {"LoadForward", "DeleteForward"}, k \in SharedKeys}
    \cup {[op |-> o, pc |-> lockKind(o), key |-> NoArg, value |-> v,
           ok |-> FALSE] : o \in {"LoadBackward", "DeleteBackward"}, v \in SharedValues}

InitShared ==
    /\ InitInterpreter
    /\ sgrCache = << >>
    /\ InitSgr
    /\ InitCol
    /\ InitProcs
    /\ InitRoot
    /\ InitColEnd
    /\ InitInput
    /\ InitOpts
    /\ biomap = [pc |-> "goroutines", Forward |-> << >>, Backward |-> << >>,
                 w |-> NoOne, readers |-> {}, gor |-> [g \in Procs |-> NoCall]]

\* The goroutine g is at the statement pc of a call.
AtStatement(g, pc) == biomap.pc = "goroutines" /\ biomap.gor[g].pc = pc

\* The goroutine g calls an operation of the map.
Call(g) ==
    /\ AtStatement(g, "idle")
    /\ \E call \in Calls : biomap' = [biomap EXCEPT !.gor[g] = call]
    /\ MapOthersUnchanged

\* m.s.Lock(), first half: the mutex is taken against the other writers.
Lock(g) ==
    /\ AtStatement(g, "Lock")
    /\ biomap.w = NoOne
    /\ biomap' = [biomap EXCEPT !.w = g, !.gor[g].pc = "Drain"]
    /\ MapOthersUnchanged

\* m.s.Lock(), second half: the readers that hold the mutex have left.
Drain(g) ==
    /\ AtStatement(g, "Drain")
    /\ biomap.readers = {}
    /\ biomap' = [biomap EXCEPT !.gor[g].pc = firstStatement(biomap.gor[g].op)]
    /\ MapOthersUnchanged

\* m.s.RLock(): taken at once when no writer has the mutex, else the
\* goroutine waits for the writer's Unlock.
RLock(g) ==
    /\ AtStatement(g, "RLock")
    /\ biomap' =
         IF biomap.w = NoOne
         THEN [biomap EXCEPT !.readers = @ \cup {g},
                             !.gor[g].pc = firstStatement(biomap.gor[g].op)]
         ELSE [biomap EXCEPT !.gor[g].pc = "RWait"]
    /\ MapOthersUnchanged

\* value, ok = m.Forward[key] of LoadForward, key, ok = m.Backward[value] of
\* LoadBackward.
Read(g) ==
    /\ AtStatement(g, "Read")
    /\ biomap' =
         IF biomap.gor[g].op = "LoadForward"
         THEN [biomap EXCEPT
                 !.gor[g].value = LoadForward(biomap, biomap.gor[g].key).value,
                 !.gor[g].ok = LoadForward(biomap, biomap.gor[g].key).ok,
                 !.gor[g].pc = unlockKind(biomap.gor[g].op)]
         ELSE [biomap EXCEPT
                 !.gor[g].key = LoadBackward(biomap, biomap.gor[g].value).key,
                 !.gor[g].ok = LoadBackward(biomap, biomap.gor[g].value).ok,
                 !.gor[g].pc = unlockKind(biomap.gor[g].op)]
    /\ MapOthersUnchanged

\* The pc after the lookup of a delete: the return for a key or value that
\* is not held.
afterFind(op, ok) == IF ok THEN "Forward" ELSE unlockKind(op)

\* value, ok := m.Forward[key] of DeleteForward, key, ok := m.Backward[value]
\* of DeleteBackward, and the return if !ok.
Find(g) ==
    /\ AtStatement(g, "Find")
    /\ biomap' =
         IF biomap.gor[g].op = "DeleteForward"
         THEN [biomap EXCEPT
                 !.gor[g].value = LoadForward(biomap, biomap.gor[g].key).value,
                 !.gor[g].ok = LoadForward(biomap, biomap.gor[g].key).ok,
                 !.gor[g].pc =
                     afterFind(biomap.gor[g].op,
                               LoadForward(biomap, biomap.gor[g].key).ok)]
         ELSE [biomap EXCEPT
                 !.gor[g].key = LoadBackward(biomap, biomap.gor[g].value).key,
                 !.gor[g].ok = LoadBackward(biomap, biomap.gor[g].value).ok,
                 !.gor[g].pc =
                     afterFind(biomap.gor[g].op,
                               LoadBackward(biomap, biomap.gor[g].value).ok)]
    /\ MapOthersUnchanged

\* m.Forward[key] = value of Store, delete(m.Forward, key) of the deletes.
WriteForward(g) ==
    /\ AtStatement(g, "Forward")
    /\ biomap' =
         [biomap EXCEPT
            !.Forward = IF biomap.gor[g].op = "Store"
                        THEN MapSet(@, biomap.gor[g].key, biomap.gor[g].value)
                        ELSE MapDelete(@, biomap.gor[g].key),
            !.gor[g].pc = "Backward"]
    /\ MapOthersUnchanged

\* m.Backward[value] = key of Store, delete(m.Backward, value) of the
\* deletes.
WriteBackward(g) ==
    /\ AtStatement(g, "Backward")
    /\ biomap' =
         [biomap EXCEPT
            !.Backward = IF biomap.gor[g].op = "Store"
                         THEN MapSet(@, biomap.gor[g].value, biomap.gor[g].key)
                         ELSE MapDelete(@, biomap.gor[g].value),
            !.gor[g].pc = unlockKind(biomap.gor[g].op)]
    /\ MapOthersUnchanged

\* The goroutines that wait in RLock.
Waiting == {h \in Procs : biomap.gor[h].pc = "RWait"}

\* The deferred m.s.Unlock(): the readers that wait are let in, and the call
\* returns.
Unlock(g) ==
    /\ AtStatement(g, "Unlock")
    /\ biomap' =
         [biomap EXCEPT
            !.w = NoOne,
            !.readers = @ \cup Waiting,
            !.gor = [h \in Procs |->
                       IF h = g THEN NoCall
                       ELSE IF h \in Waiting
                       THEN [biomap.gor[h] EXCEPT
                               !.pc = firstStatement(biomap.gor[h].op)]
                       ELSE biomap.gor[h]]]
    /\ MapOthersUnchanged

\* The deferred m.s.RUnlock(), and the return.
RUnlock(g) ==
    /\ AtStatement(g, "RUnlock")
    /\ biomap' = [biomap EXCEPT !.readers = @ \ {g}, !.gor[g] = NoCall]
    /\ MapOthersUnchanged

\* The statements of a call after its lock is requested.
Proceed(g) ==
    \/ Drain(g)
    \/ RLock(g)
    \/ Read(g)
    \/ Find(g)
    \/ WriteForward(g)
    \/ WriteBackward(g)
    \/ Unlock(g)
    \/ RUnlock(g)

NextShared == \E g \in Procs : Call(g) \/ Lock(g) \/ Proceed(g)

\* A goroutine in a call is scheduled again and again, and a goroutine that
\* waits in Lock gets the mutex once it is free often enough (a sync.Mutex
\* hands the mutex to a waiter that has waited long).  Nothing makes a
\* goroutine call.
SpecShared ==
    /\ InitShared
    /\ [][NextShared]_vars
    /\ \A g \in Procs : WF_vars(Proceed(g)) /\ SF_vars(Lock(g))

\* The statements that read the maps, and that write them or stand between
\* the lookup and the writes.
ReadStatements == {"Read"}

WriteStatements == {"Find", "Forward", "Backward"}

\* C37: the operations of a Map are atomic with respect to each other: no
\* LoadForward or LoadBackward reads between the two writes of a Store or
\* of a delete, and two writers never have their writes interleaved, while
\* loads may read together; and every operation that has started returns.
C37_Atomic ==
    /\ [](biomap.pc = "goroutines" =>
            \A g \in Procs : \A h \in Procs \ {g} :
                biomap.gor[g].pc \in WriteStatements =>
                    biomap.gor[h].pc \notin WriteStatements \cup ReadStatements)
    /\ \A g \in Procs :
          (biomap.gor[g].pc # "idle") ~> (biomap.gor[g].pc = "idle")

\* Two loads read together, one by key and one by value, while the maps
\* hold a pair.
C37_Witness ==
    /\ biomap.pc = "goroutines"
    /\ biomap.gor[1].op = "LoadForward"
    /\ biomap.gor[1].pc = "Read"
    /\ biomap.gor[2].op = "LoadBackward"
    /\ biomap.gor[2].pc = "Read"
    /\ biomap.readers = {1, 2}
    /\ StoredPairs(biomap) # {}

\* ---------------------------------------------------------------------
\* SpecToggle: the toggle actions of the display options.
\* ---------------------------------------------------------------------

\* The option each toggle action of TestRoot_toggle writes.
ToggleOptions ==
    [toggleColumnMode |-> "ColumnMode", toggleWrapMode |-> "WrapMode",
     toggleLineNumMode |-> "LineNumMode", toggleColumnWidth |-> "ColumnWidth",
     toggleAlternateRows |-> "AlternateRows", togglePlain |-> "PlainMode",
     toggleRainbow |-> "ColumnRainbow", toggleFollowMode |-> "FollowMode",
     toggleFollowAll |-> "FollowAll", toggleFollowSection |-> "FollowSection",
     toggleHideOtherSection |-> "HideOtherSection"]

ToggleNames == DOMAIN ToggleOptions

OptionNames == {ToggleOptions[t] : t \in ToggleNames}

\* A toggle that switches its option on.
toggleSwitchesOn(options, t) == [options EXCEPT ![ToggleOptions[t]] = TRUE]

\* The options after the toggle action t.
toggle(options, t) == [options EXCEPT ![ToggleOptions[t]] = ~@]

\* Any setting of the options, as the configuration gives it; no toggle made
\* yet.  was is the value the option of the last toggle had before it;
\* twice says that the toggle before the last was the same one, and orig is
\* the value the option had before the two.
InitToggle ==
    /\ InitInterpreter
    /\ sgrCache = << >>
    /\ InitSgr
    /\ InitCol
    /\ InitProcs
    /\ InitRoot
    /\ InitColEnd
    /\ InitInput
    /\ InitBiomap
    /\ \E options \in [OptionNames -> BOOLEAN] :
          opts = [pc |-> "opts", Doc |-> options, last |-> "none", was |-> FALSE,
                  twice |-> FALSE, orig |-> FALSE]

\* One toggle action.
Toggle ==
    /\ opts.pc = "opts"
    /\ \E t \in ToggleNames :
          opts' = [opts EXCEPT !.Doc = toggle(@, t), !.last = t,
                               !.was = opts.Doc[ToggleOptions[t]],
                               !.twice = (t = opts.last),
                               !.orig = (t = opts.last /\ opts.was)]
    /\ UNCHANGED <<es, st, last, trk, n, sgrCache, sg, col, procs, root,
                   colEnd, input, biomap>>

NextToggle == Toggle

SpecToggle == InitToggle /\ [][NextToggle]_vars

MaxList == 3

\* The strings the calls are made with.
CandidateStrings == {"", "a", "b"}

\* What c.list[i] gives: the entry, or a panic for an index out of range.
OutOfRange == "index out of range"

At(list, i) == IF i \in 0 .. Len(list) - 1 THEN list[i + 1] ELSE OutOfRange

\* blankCandidate: an empty list, p = 0.
blankCandidate == [list |-> << >>, p |-> 0, ret |-> ""]

\* The list without the entries equal to str.
RemoveString(list, str) == SelectSeq(list, LAMBDA entry : entry # str)

\* candidate.toLast: nothing for the empty string; else str is moved to the
\* end of the list and p is 0.
toLast(c, str) ==
    IF str = "" THEN [c EXCEPT !.ret = ""]
    ELSE [list |-> Append(RemoveString(c.list, str), str), p |-> 0, ret |-> ""]

\* candidate.toAddTop and candidate.toAddLast: str is put at the top, or at
\* the end, of the list; p is not written.
toAddTop(c, str) == [c EXCEPT !.list = <<str>> \o c.list, !.ret = ""]

toAddLast(c, str) == [c EXCEPT !.list = Append(c.list, str), !.ret = ""]

\* candidate.up.
up(c) ==
    IF Len(c.list) = 0 THEN [c EXCEPT !.ret = ""]
    ELSE IF c.p > 0
    THEN [c EXCEPT !.p = c.p - 1, !.ret = At(c.list, c.p - 1)]
    ELSE [c EXCEPT !.p = Len(c.list) - 1, !.ret = At(c.list, Len(c.list) - 1)]

\* candidate.down that stays on the last entry.
downStopsAtLast(c) ==
    IF Len(c.list) = 0 THEN [c EXCEPT !.ret = ""]
    ELSE IF Len(c.list) > c.p + 1
    THEN [c EXCEPT !.p = c.p + 1, !.ret = At(c.list, c.p + 1)]
    ELSE [c EXCEPT !.ret = At(c.list, c.p)]

\* candidate.down.
down(c) ==
    IF Len(c.list) = 0 THEN [c EXCEPT !.ret = ""]
    ELSE IF Len(c.list) > c.p + 1
    THEN [c EXCEPT !.p = c.p + 1, !.ret = At(c.list, c.p + 1)]
    ELSE [c EXCEPT !.p = 0, !.ret = At(c.list, 0)]

\* The last count elements of a sequence.
LastOf(seq, count) ==
    IF Len(seq) <= count THEN seq ELSE SubSeq(seq, Len(seq) - count + 1, Len(seq))

\* The candidate after a call: op and str are the call and its argument,
\* run the positions the down calls made in a row since the last other call
\* have returned, the last Len(list) of them.
Called(c, name, str) ==
    [pc |-> "candidate", list |-> c.list, p |-> c.p, ret |-> c.ret,
     op |-> name, str |-> str,
     run |-> IF name = "down" /\ Len(c.list) > 0
             THEN LastOf(Append(input.run, c.p), Len(c.list))
             ELSE << >>]

InitCandidate ==
    /\ InitInterpreter
    /\ sgrCache = << >>
    /\ InitSgr
    /\ InitCol
    /\ InitProcs
    /\ InitRoot
    /\ InitColEnd
    /\ InitOpts
    /\ InitBiomap
    /\ input = [pc |-> "candidate", list |-> blankCandidate.list,
                p |-> blankCandidate.p, ret |-> "", op |-> "blankCandidate",
                str |-> "", run |-> << >>]

Up ==
    /\ input.pc = "candidate"
    /\ input' = Called(up(input), "up", "")
    /\ OthersUnchanged

Down ==
    /\ input.pc = "candidate"
    /\ input' = Called(down(input), "down", "")
    /\ OthersUnchanged

ToLast ==
    /\ input.pc = "candidate"
    /\ \E str \in CandidateStrings :
          /\ Len(toLast(input, str).list) <= MaxList
          /\ input' = Called(toLast(input, str), "toLast", str)
    /\ OthersUnchanged

ToAddTop ==
    /\ input.pc = "candidate"
    /\ Len(input.list) < MaxList
    /\ \E str \in CandidateStrings \ {""} :
          input' = Called(toAddTop(input, str), "toAddTop", str)
    /\ OthersUnchanged

ToAddLast ==
    /\ input.pc = "candidate"
    /\ Len(input.list) < MaxList
    /\ \E str \in CandidateStrings \ {""} :
          input' = Called(toAddLast(input, str), "toAddLast", str)
    /\ OthersUnchanged

NextCandidate == Up \/ Down \/ ToLast \/ ToAddTop \/ ToAddLast

SpecCandidate == InitCandidate /\ [][NextCandidate]_vars

\* The positions of a list of count entries.
Positions(count) == 0 .. count - 1

\* C39: on a list of n >= 1 entries up and down return an entry of the
\* list and keep p in [0, n): down goes to the next entry and from the last
\* to the first, up to the previous entry and from the first to the last,
\* and n down calls in a row visit every entry once.  On an empty list both
\* return "" and leave p.  toLast of a non-empty string sets p to 0, toLast
\* of "" changes nothing.
C39_Candidate ==
    [][input.pc = "candidate" =>
         /\ Len(input'.list) >= 1 => input'.p \in Positions(Len(input'.list))
         /\ (input'.op \in {"up", "down"} /\ Len(input.list) >= 1) =>
               /\ input'.list = input.list
               /\ input'.ret = At(input.list, input'.p)
               /\ input'.ret # OutOfRange
               /\ input'.p = IF input'.op = "down"
                             THEN (input.p + 1) % Len(input.list)
                             ELSE (input.p + Len(input.list) - 1) % Len(input.list)
         /\ (input'.op = "down" /\ Len(input'.run) = Len(input.list)) =>
               {input'.run[i] : i \in 1 .. Len(input'.run)}
                 = Positions(Len(input.list))
         /\ (input'.op \in {"up", "down"} /\ Len(input.list) = 0) =>
               /\ input'.ret = ""
               /\ input'.p = input.p
               /\ input'.list = input.list
         /\ (input'.op = "toLast" /\ input'.str # "") => input'.p = 0
         /\ (input'.op = "toLast" /\ input'.str = "") =>
               /\ input'.p = input.p
               /\ input'.list = input.list]_vars

\* Three down calls in a row on a list of three entries, started in the
\* middle, have gone over the end of the list and visited every entry.
C39_Witness ==
    /\ input.pc = "candidate"
    /\ input.op = "down"
    /\ Len(input.list) = 3
    /\ input.run = <<2, 0, 1>>
    /\ input.p = 1
====
